---- MODULE Spec2Model ----
(***************************************************************************)
(* Session telemetry store of browser-connect-mcp (BrowserManager), the    *)
(* tool handlers that query it, and the pure query functions of            *)
(* search-utils.  JavaScript objects (CDP clients, the per-tab console     *)
(* array, the per-tab request/response Maps) are modelled with their       *)
(* identity, because the code shares them by reference.                    *)
(***************************************************************************)
EXTENDS Integers, Sequences, FiniteSets, TLC

\* ------------------------------------------------------------------ bounds
NumTabs == 1
MaxClients == 2
MaxEvents == 3
\* The retention caps: 10000 (console) and 5000 (requests, responses) in the
\* source, scaled down so that eviction happens within MaxEvents events.
ConsoleCap == 2
RequestCap == 2
ResponseCap == 2
\* Longest message sequence handed to searchConsoleMessages in SpecSearch.
MaxLen == 3
\* Most requests, and most responses, handed to the network queries in SpecNet.
MaxNet == 2
\* slice(0, 10) of slowestRequests, scaled down like the caps.
SlowestCap == 1
\* Longest messages array handed to correlateErrors in SpecCorrelate.
MaxErrors == 6

Tabs == 1..NumTabs
ClientIds == 1..MaxClients
NoClient == 0
\* Reference of a Map that the manager does not hold (created by `|| new Map()`).
Orphan == 0

\* ----------------------------------------------------------------- strings
\* A string is a sequence of characters; the alphabet is the letter E in
\* both cases.

toLowerCase(s) == [i \in DOMAIN s |-> IF s[i] = "E" THEN "e" ELSE s[i]]

\* String.prototype.includes
includes(text, pat) ==
  \E i \in 0..(Len(text) - Len(pat)) : SubSeq(text, i + 1, i + Len(pat)) = pat

\* new RegExp(pattern, ignoreCase ? 'i' : '').test(text), for patterns made of
\* letters only (no metacharacters): an unanchored search, no lastIndex state
\* because the flag g is not set.
RegExpTest(pattern, ignoreCase, text) ==
  IF ignoreCase THEN includes(toLowerCase(text), toLowerCase(pattern))
  ELSE includes(text, pattern)

\* Array.prototype.slice(-n) for n > 0
SliceLast(s, n) == IF Len(s) <= n THEN s ELSE SubSeq(s, Len(s) - n + 1, Len(s))

\* -------------------------------------------------------------- the state
VARIABLES
  clients,          \* CDP client objects: tab, socket state, listeners, captured Maps
  nextClient,       \* the next client object to be created
  connections,      \* BrowserManager.connections: tab -> client (NoClient: no entry)
  disconnecting,    \* disconnectTab calls suspended at `await client.close()`
  consoleMessages,  \* BrowserManager.consoleMessages: tab -> array object
  networkRequests,  \* BrowserManager.networkRequests: tab -> Map object
  networkResponses, \* BrowserManager.networkResponses: tab -> Map object
  nextRef,          \* identity of the next array/Map object
  nextUid,          \* identity of the next record object; counts the events
  callResult,       \* what the last tool call returned
  snapshot,         \* an array a reader got from a getter and still holds
  closedSince,      \* history: tab -> disconnectTab completed, no open since
  ingested,         \* history: tab -> records ingested into the session since its open
  sMessages,        \* SpecSearch: the array handed to searchConsoleMessages
  sResult,          \* SpecSearch: options and result of the last search
  sPrev,            \* SpecSearch: the search before it, if no message came in between
  nRequests,        \* SpecNet: the requests array handed to the network queries
  nResponses,       \* SpecNet: the responses array handed to them
  nResult,          \* SpecNet: what the last network query returned
  mRecords,         \* SpecMatch: the records passed to one AdvancedMatcher, in order
  mRun,             \* SpecMatch: the matcher's options and what it answered for each
  eMessages,        \* SpecCorrelate: the messages array handed to correlateErrors
  eRun              \* SpecCorrelate: the correlations it returned

storeVars == <<clients, nextClient, connections, disconnecting, consoleMessages,
               networkRequests, networkResponses, nextRef, nextUid, callResult,
               snapshot, closedSince, ingested>>
searchVars == <<sMessages, sResult, sPrev>>
netVars == <<nRequests, nResponses, nResult>>
matchVars == <<mRecords, mRun>>
corrVars == <<eMessages, eRun>>
pureVars == <<searchVars, netVars, matchVars, corrVars>>
vars == <<storeVars, pureVars>>

\* ------------------------------------------------------- objects and records
NoEntry == [present |-> FALSE, ref |-> Orphan, items |-> <<>>]
NewObject(r) == [present |-> TRUE, ref |-> r, items |-> <<>>]

NoSocket == [tab |-> 0, socket |-> "none", enabling |-> FALSE, listening |-> FALSE,
             requests |-> Orphan, responses |-> Orphan]

NoHistory == [console |-> <<>>, requests |-> <<>>, responses |-> <<>>]

RequestIds == {"r1", "r2", "r3"}

\* What the transport delivers in the store specification: console messages of
\* either case and level, with timestamps that need not increase (Date.now()
\* at line 271, the page's clock at line 293).
StoreMessages ==
  { [level |-> "error", text |-> <<"E">>, timestamp |-> 2],
    [level |-> "log", text |-> <<"e">>, timestamp |-> 1] }

WithUid(rec, u) == [x \in DOMAIN rec \cup {"uid"} |-> IF x = "uid" THEN u ELSE rec[x]]

\* isConnected asking the console store instead of connections.
isConnected_hasConsoleStore(t) == consoleMessages[t].present

\* BrowserManager.isConnected
isConnected(t) == connections[t] # NoClient

\* Array push followed by `if (length > cap) shift()`
PushBounded(items, rec, cap) ==
  LET pushed == Append(items, rec)
  IN  IF Len(pushed) > cap THEN Tail(pushed) ELSE pushed

\* Map.prototype.has / get on a Map kept as its entries in insertion order
MapHas(items, key) == \E i \in DOMAIN items : items[i].requestId = key

\* Map.prototype.set: an existing key keeps its place, a new key goes last
MapSet(items, rec) ==
  IF MapHas(items, rec.requestId)
  THEN [i \in DOMAIN items |-> IF items[i].requestId = rec.requestId THEN rec ELSE items[i]]
  ELSE Append(items, rec)

\* The eviction deleting the newest key instead of the first one.
MapSetBounded_evictsNewest(items, rec, cap) ==
  LET stored == MapSet(items, rec)
  IN  IF Len(stored) > cap THEN SubSeq(stored, 1, cap) ELSE stored

\* Map set followed by `if (size > cap) delete(keys().next().value)`
MapSetBounded(items, rec, cap) ==
  LET stored == MapSet(items, rec)
  IN  IF Len(stored) > cap THEN Tail(stored) ELSE stored

\* -------------------------------------------------------------- tool results
NoCall == [op |-> "none", tab |-> 0, isError |-> FALSE, wasConnected |-> FALSE,
           afterClose |-> FALSE, messages |-> <<>>, requests |-> <<>>, responses |-> <<>>]

\* The result of a tool call on tab t: isError is the handler's catch block
\* (index.ts 1035-1046); messages, requests and responses are the records in it.
Returned(op, t, err, msgs, reqs, resps) ==
  [op |-> op, tab |-> t, isError |-> err, wasConnected |-> connections[t] # NoClient,
   afterClose |-> closedSince[t], messages |-> msgs, requests |-> reqs,
   responses |-> resps]

NoSnapshot == [kind |-> "none", ref |-> Orphan, items |-> <<>>, atReturn |-> <<>>]

Init ==
  /\ clients = [c \in ClientIds |-> NoSocket]
  /\ nextClient = 1
  /\ connections = [t \in Tabs |-> NoClient]
  /\ disconnecting = [t \in Tabs |-> NoClient]
  /\ consoleMessages = [t \in Tabs |-> NoEntry]
  /\ networkRequests = [t \in Tabs |-> NoEntry]
  /\ networkResponses = [t \in Tabs |-> NoEntry]
  /\ nextRef = 1
  /\ nextUid = 1
  /\ callResult = NoCall
  /\ snapshot = NoSnapshot
  /\ closedSince = [t \in Tabs |-> FALSE]
  /\ ingested = [t \in Tabs |-> NoHistory]
  /\ sMessages = <<>>
  /\ sResult = [called |-> FALSE]
  /\ sPrev = [called |-> FALSE]
  /\ nRequests = <<>>
  /\ nResponses = <<>>
  /\ nResult = [called |-> "none"]
  /\ mRecords = <<>>
  /\ mRun = [called |-> FALSE]
  /\ eMessages = <<>>
  /\ eRun = [called |-> FALSE]

\* The controller issues one tool call at a time: a call starts when no
\* connectToTab waits at line 248 and no disconnectTab waits at line 477. The
\* transport's events are delivered at any time, also while a call waits.
Idle ==
  /\ \A c \in ClientIds : ~clients[c].enabling
  /\ \A t \in Tabs : disconnecting[t] = NoClient

\* ------------------------------------------------ BrowserManager.connectToTab
\* Lines 232-238 throw before anything is stored: CDP.List fails, the tab is
\* not listed, or CDP() cannot create the client.
connectToTab_rejected(t) ==
  /\ Idle
  /\ callResult' = Returned("browser_connect", t, TRUE, <<>>, <<>>, <<>>)
  /\ UNCHANGED <<clients, nextClient, connections, disconnecting, consoleMessages,
                 networkRequests, networkResponses, nextRef, nextUid, snapshot,
                 closedSince, ingested, pureVars>>

\* Lines 239-245, run when `await CDP(...)` resolves: the new client replaces
\* whatever connections held for the tab and the three stores are made anew.
\* There is no check for an existing connection. The call then waits at line 248.
connectToTab_store(t) ==
  /\ Idle
  /\ nextClient <= MaxClients
  /\ clients' = [clients EXCEPT ![nextClient] =
                   [tab |-> t, socket |-> "open", enabling |-> TRUE,
                    listening |-> FALSE, requests |-> Orphan, responses |-> Orphan]]
  /\ nextClient' = nextClient + 1
  /\ connections' = [connections EXCEPT ![t] = nextClient]
  /\ consoleMessages' = [consoleMessages EXCEPT ![t] = NewObject(nextRef)]
  /\ networkRequests' = [networkRequests EXCEPT ![t] = NewObject(nextRef + 1)]
  /\ networkResponses' = [networkResponses EXCEPT ![t] = NewObject(nextRef + 2)]
  /\ nextRef' = nextRef + 3
  /\ closedSince' = [closedSince EXCEPT ![t] = FALSE]
  /\ ingested' = [ingested EXCEPT ![t] = NoHistory]
  /\ UNCHANGED <<disconnecting, nextUid, callResult, snapshot, pureVars>>

\* Lines 248-259, run when the four enable() promises resolve: the listeners
\* are installed; the network listeners capture the Maps the manager holds for
\* the tab at this moment, or fresh ones (line 310-311).
connectToTab_listen(c) ==
  LET t == clients[c].tab IN
  /\ clients[c].enabling
  /\ clients[c].socket = "open"
  /\ clients' = [clients EXCEPT ![c] =
                   [@ EXCEPT !.enabling = FALSE, !.listening = TRUE,
                             !.requests = networkRequests[t].ref,
                             !.responses = networkResponses[t].ref]]
  /\ callResult' = Returned("browser_connect", t, FALSE, <<>>, <<>>, <<>>)
  /\ UNCHANGED <<nextClient, connections, disconnecting, consoleMessages,
                 networkRequests, networkResponses, nextRef, nextUid, snapshot,
                 closedSince, ingested, pureVars>>

\* Lines 248-253 reject and the catch block rethrows (260-263): nothing that
\* lines 240-245 stored is taken back.
connectToTab_enableFailed(c) ==
  /\ clients[c].enabling
  /\ clients' = [clients EXCEPT ![c].enabling = FALSE]
  /\ callResult' = Returned("browser_connect", clients[c].tab, TRUE, <<>>, <<>>, <<>>)
  /\ UNCHANGED <<nextClient, connections, disconnecting, consoleMessages,
                 networkRequests, networkResponses, nextRef, nextUid, snapshot,
                 closedSince, ingested, pureVars>>

\* ----------------------------------------------- BrowserManager.disconnectTab
\* Line 475-476 with no client for the tab: nothing is done, and the handler
\* (index.ts 591-602) reports success.
disconnectTab_noClient(t) ==
  /\ Idle
  /\ connections[t] = NoClient
  /\ callResult' = Returned("browser_disconnect", t, FALSE, <<>>, <<>>, <<>>)
  /\ UNCHANGED <<clients, nextClient, connections, disconnecting, consoleMessages,
                 networkRequests, networkResponses, nextRef, nextUid, snapshot,
                 closedSince, ingested, pureVars>>

\* Lines 475-477: the client is read and the call waits for client.close().
disconnectTab_close(t) ==
  /\ Idle
  /\ connections[t] # NoClient
  /\ disconnecting' = [disconnecting EXCEPT ![t] = connections[t]]
  /\ UNCHANGED <<clients, nextClient, connections, consoleMessages, networkRequests,
                 networkResponses, nextRef, nextUid, callResult, snapshot,
                 closedSince, ingested, pureVars>>

\* Map.prototype.delete on connections
disconnectTab_connections(conn, t) == [conn EXCEPT ![t] = NoClient]

\* Lines 478-482, run when close() resolves: the four entries of the tab are
\* deleted, whichever client and stores they hold by now.
disconnectTab_done(t) ==
  /\ disconnecting[t] # NoClient
  /\ clients' = [clients EXCEPT ![disconnecting[t]].socket = "closed"]
  /\ connections' = disconnectTab_connections(connections, t)
  /\ consoleMessages' = [consoleMessages EXCEPT ![t] = NoEntry]
  /\ networkRequests' = [networkRequests EXCEPT ![t] = NoEntry]
  /\ networkResponses' = [networkResponses EXCEPT ![t] = NoEntry]
  /\ disconnecting' = [disconnecting EXCEPT ![t] = NoClient]
  /\ closedSince' = [closedSince EXCEPT ![t] = TRUE]
  /\ callResult' = [Returned("browser_disconnect", t, FALSE, <<>>, <<>>, <<>>)
                      EXCEPT !.wasConnected = TRUE]
  /\ UNCHANGED <<nextClient, nextRef, nextUid, snapshot, ingested, pureVars>>

\* --------------------------------------------------- the transport's events
\* A client delivers events once its listeners are installed and until its
\* socket is closed. A client that connections no longer holds is never closed.
Delivers(c) ==
  /\ clients[c].listening
  /\ clients[c].socket = "open"
  /\ nextUid <= MaxEvents

\* An array a reader holds is the very array the listener pushes to and shifts.
Aliased(snap, entry, items) ==
  IF snap.kind = "console" /\ snap.ref # Orphan /\ entry.present /\ snap.ref = entry.ref
  THEN [snap EXCEPT !.items = items]
  ELSE snap

\* The body shared by both console listeners (lines 278-286 and 298-305).
pushConsoleMessage(t, m) ==
  LET rec == WithUid(m, nextUid)
      \* this.consoleMessages.get(tabId) || []
      arr == IF consoleMessages[t].present THEN consoleMessages[t] ELSE NewObject(nextRef)
      items == PushBounded(arr.items, rec, ConsoleCap)
  IN  /\ consoleMessages' = [consoleMessages EXCEPT ![t] = [arr EXCEPT !.items = items]]
      /\ nextRef' = IF consoleMessages[t].present THEN nextRef ELSE nextRef + 1
      /\ nextUid' = nextUid + 1
      /\ snapshot' = Aliased(snapshot, consoleMessages[t], items)
      /\ ingested' = [ingested EXCEPT ![t].console = Append(@, rec)]
      /\ UNCHANGED <<clients, nextClient, connections, disconnecting, networkRequests,
                     networkResponses, callResult, closedSince, pureVars>>

\* client.Console.messageAdded (lines 267-287)
Console_messageAdded(c, m) ==
  /\ Delivers(c)
  /\ pushConsoleMessage(clients[c].tab, m)

\* client.Runtime.consoleAPICalled (lines 289-306)
Runtime_consoleAPICalled(c, m) ==
  /\ Delivers(c)
  /\ pushConsoleMessage(clients[c].tab, m)

\* The Map a network listener captured is the one the manager holds for the tab.
Held(entry, ref) == entry.present /\ ref # Orphan /\ entry.ref = ref

\* client.Network.requestWillBeSent (lines 313-332). A write to a Map the
\* manager does not hold is seen by no getter.
Network_requestWillBeSent(c, rid) ==
  LET t == clients[c].tab
      rec == [uid |-> nextUid, requestId |-> rid]
  IN  /\ Delivers(c)
      /\ nextUid' = nextUid + 1
      /\ IF Held(networkRequests[t], clients[c].requests)
         THEN /\ networkRequests' = [networkRequests EXCEPT ![t].items =
                                       MapSetBounded(@, rec, RequestCap)]
              /\ ingested' = [ingested EXCEPT ![t].requests = Append(@, rec)]
         ELSE UNCHANGED <<networkRequests, ingested>>
      /\ UNCHANGED <<clients, nextClient, connections, disconnecting, consoleMessages,
                     networkResponses, nextRef, callResult, snapshot, closedSince,
                     pureVars>>

\* The response built at lines 335-346: responseTime is defined when the
\* captured requests Map has the request.
NewResponse(u, rid, requests) ==
  [uid |-> u, requestId |-> rid, hasResponseTime |-> MapHas(requests, rid)]

\* What lines 348-354 leave in the responses Map: the response is stored
\* whether or not its request is known.
storeResponse(responses, rec) == MapSetBounded(responses, rec, ResponseCap)

\* client.Network.responseReceived (lines 334-355)
Network_responseReceived(c, rid) ==
  LET t == clients[c].tab
      rec == NewResponse(nextUid, rid, networkRequests[t].items)
  IN  /\ Delivers(c)
      /\ nextUid' = nextUid + 1
      /\ IF Held(networkResponses[t], clients[c].responses)
         THEN /\ networkResponses' = [networkResponses EXCEPT ![t].items =
                                        storeResponse(@, rec)]
              /\ ingested' = [ingested EXCEPT ![t].responses = Append(@, rec)]
         ELSE UNCHANGED <<networkResponses, ingested>>
      /\ UNCHANGED <<clients, nextClient, connections, disconnecting, consoleMessages,
                     networkRequests, nextRef, callResult, snapshot, closedSince,
                     pureVars>>

\* ------------------------------------------------------------------ getters
\* BrowserManager.getConsoleMessages (501-503): the stored array itself, or a
\* new empty one.
getConsoleMessages(t) == consoleMessages[t]

\* BrowserManager.getNetworkRequests (505-508): Array.from, a new array.
getNetworkRequests(t) == [NoEntry EXCEPT !.items = networkRequests[t].items]

\* BrowserManager.getNetworkResponses (510-513): Array.from, a new array.
getNetworkResponses(t) == [NoEntry EXCEPT !.items = networkResponses[t].items]

\* A reader calls a getter and keeps what it returned.
Read(kind, t) ==
  LET got == CASE kind = "console" -> getConsoleMessages(t)
               [] kind = "requests" -> getNetworkRequests(t)
               [] OTHER -> getNetworkResponses(t)
  IN  /\ Idle
      /\ snapshot' = [kind |-> kind, ref |-> got.ref, items |-> got.items,
                      atReturn |-> got.items]
      /\ UNCHANGED <<clients, nextClient, connections, disconnecting, consoleMessages,
                     networkRequests, networkResponses, nextRef, nextUid, callResult,
                     closedSince, ingested, pureVars>>

\* ------------------------------------------------ search-utils (part_007 3-43)
\* SearchOptions: an optional member is a has-flag and a value.
NoOptions ==
  [hasLevel |-> FALSE, level |-> {}, hasStart |-> FALSE, startTime |-> 0,
   hasEnd |-> FALSE, endTime |-> 0, hasPattern |-> FALSE, pattern |-> <<>>,
   regex |-> FALSE, caseSensitive |-> FALSE, hasLimit |-> FALSE, limit |-> 0]

\* Lines 24-35: the pattern is lower-cased whenever it is not a regular
\* expression (line 27), the text only when the search is not case sensitive.
patternFilter(text, o) ==
  LET cmp == IF o.caseSensitive THEN text ELSE toLowerCase(text)
  IN  IF o.regex THEN RegExpTest(o.pattern, ~o.caseSensitive, cmp)
      ELSE includes(cmp, toLowerCase(o.pattern))

\* Line 38: `options.limit && options.limit > 0`
limitApplies(o) == o.hasLimit /\ o.limit # 0 /\ o.limit > 0

searchConsoleMessages(messages, o) ==
  LET byLevel == IF o.hasLevel
                 THEN SelectSeq(messages, LAMBDA m : m.level \in o.level)
                 ELSE messages
      byStart == IF o.hasStart /\ o.startTime # 0
                 THEN SelectSeq(byLevel, LAMBDA m : m.timestamp >= o.startTime)
                 ELSE byLevel
      byEnd == IF o.hasEnd /\ o.endTime # 0
               THEN SelectSeq(byStart, LAMBDA m : m.timestamp <= o.endTime)
               ELSE byStart
      byPattern == IF o.hasPattern /\ o.pattern # <<>>
                   THEN SelectSeq(byEnd, LAMBDA m : patternFilter(m.text, o))
                   ELSE byEnd
  IN  IF limitApplies(o) THEN SliceLast(byPattern, o.limit) ELSE byPattern

\* Array.prototype.sort((a, b) => a.timestamp - b.timestamp), which is stable.
RECURSIVE SortByTimestamp(_)
SortByTimestamp(s) ==
  IF s = <<>> THEN <<>>
  ELSE LET front == SortByTimestamp(SubSeq(s, 1, Len(s) - 1))
           x == s[Len(s)]
           k == Cardinality({i \in DOMAIN front : front[i].timestamp <= x.timestamp})
       IN  SubSeq(front, 1, k) \o <<x>> \o SubSeq(front, k + 1, Len(front))

\* ---------------------------------------------------- the query tool handlers
QueryOps ==
  {"console_search", "network_analyze", "network_performance", "network_export_har",
   "console_advanced_search", "performance_profile", "error_correlate",
   "security_scan", "log_analyze"}

\* The getters each handler calls (index.ts 604-936).
ReadsConsole(op) ==
  op \in {"console_search", "console_advanced_search", "error_correlate",
          "security_scan", "log_analyze"}
ReadsNetwork(op) == op \notin {"console_search", "console_advanced_search"}

\* limit = 100 unless the caller gives one (index.ts 605)
DefaultLimit == 100

\* The filters console_search is called with in the store specification:
\* it passes pattern, regex, level and limit only (index.ts 612-617).
ToolFilters ==
  { [NoOptions EXCEPT !.hasLimit = TRUE, !.limit = DefaultLimit],
    [NoOptions EXCEPT !.hasLimit = TRUE, !.limit = 1, !.hasLevel = TRUE,
                      !.level = {"error"}] }

\* correlateErrors sorting the array it was handed, not a copy of it.
argumentAfter_sortsInPlace(op, messages) ==
  IF op = "error_correlate" THEN SortByTimestamp(messages) ELSE messages

Reverse(s) == [i \in 1..Len(s) |-> s[Len(s) + 1 - i]]

\* searchConsoleMessages reversing the array it was handed, not a copy of it.
argumentAfter_reversesInPlace(op, messages) ==
  IF op = "console_search" THEN Reverse(messages) ELSE messages

\* The array a query or analysis was handed, as the call leaves it. None of them
\* writes to its argument: searchConsoleMessages filters a copy (part_007 7),
\* findCascadingErrors and correlateMessages sort a copy (error-correlation.ts
\* 98, 596), the scanners, the profiler, the log analyzer and the HAR export
\* only read (filter, map, for-of).
argumentAfter(op, messages) == messages

\* One query or analysis call (index.ts 604-936): an error unless the tab is
\* connected; otherwise the handler reads the store through the getters and
\* answers from what it read.
Query(op, t, o) ==
  LET msgs == getConsoleMessages(t).items
      reqs == getNetworkRequests(t).items
      resps == getNetworkResponses(t).items
      after == argumentAfter(op, msgs)
  IN  /\ Idle
      /\ op = "console_search" \/ o = NoOptions
      /\ IF ~isConnected(t)
         THEN /\ callResult' = Returned(op, t, TRUE, <<>>, <<>>, <<>>)
              /\ UNCHANGED <<consoleMessages, snapshot>>
         ELSE /\ callResult' =
                   Returned(op, t, FALSE,
                            IF op = "console_search" THEN searchConsoleMessages(msgs, o)
                            ELSE IF ReadsConsole(op) THEN msgs ELSE <<>>,
                            IF ReadsNetwork(op) THEN reqs ELSE <<>>,
                            IF ReadsNetwork(op) THEN resps ELSE <<>>)
              /\ consoleMessages' =
                   IF ReadsConsole(op) /\ consoleMessages[t].present
                   THEN [consoleMessages EXCEPT ![t].items = after]
                   ELSE consoleMessages
              /\ snapshot' = IF ReadsConsole(op)
                             THEN Aliased(snapshot, consoleMessages[t], after)
                             ELSE snapshot
      /\ UNCHANGED <<clients, nextClient, connections, disconnecting, networkRequests,
                     networkResponses, nextRef, nextUid, closedSince, ingested,
                     pureVars>>

\* ------------------------------------------- searchConsoleMessages on its own
\* The messages handed to searchConsoleMessages in SpecSearch.
SearchMessages ==
  { [level |-> "error", text |-> <<"E">>, timestamp |-> 1],
    [level |-> "error", text |-> <<"e", "E">>, timestamp |-> 3],
    [level |-> "log", text |-> <<"E">>, timestamp |-> 3],
    [level |-> "log", text |-> <<"e">>, timestamp |-> 1] }

\* The filters of SpecSearch: every member of SearchOptions, given or not.
SearchFilters ==
  LET all == { [hasLevel |-> hl, level |-> IF hl THEN {"error"} ELSE {},
                hasStart |-> hs, startTime |-> IF hs THEN 2 ELSE 0,
                hasEnd |-> he, endTime |-> IF he THEN 2 ELSE 0,
                hasPattern |-> p # <<>>, pattern |-> p,
                regex |-> re, caseSensitive |-> cs,
                hasLimit |-> lim >= 0, limit |-> IF lim >= 0 THEN lim ELSE 0] :
               hl \in BOOLEAN, hs \in BOOLEAN, he \in BOOLEAN,
               p \in {<<>>, <<"E">>, <<"e">>}, re \in BOOLEAN, cs \in BOOLEAN,
               lim \in -1..2 }
  IN  {o \in all : o.hasPattern \/ (~o.regex /\ ~o.caseSensitive)}

NotCalled == [called |-> FALSE]

\* A message arrives in the array between two searches.
S_push(m) ==
  /\ Len(sMessages) < MaxLen
  /\ sMessages' = Append(sMessages, WithUid(m, Len(sMessages) + 1))
  /\ sResult' = NotCalled
  /\ sPrev' = NotCalled
  /\ UNCHANGED <<storeVars, netVars, matchVars, corrVars>>

\* One call of searchConsoleMessages on the array: a first search, or the
\* last search repeated. sPrev keeps the call before it.
S_search(o) ==
  /\ sResult.called => sResult.options = o
  /\ sResult' = [called |-> TRUE, messages |-> sMessages, options |-> o,
                 out |-> searchConsoleMessages(sMessages, o)]
  /\ sPrev' = sResult
  /\ sMessages' = argumentAfter("console_search", sMessages)
  /\ UNCHANGED <<storeVars, netVars, matchVars, corrVars>>

\* ------------------------------------- search-utils (part_007 45-191) on its own
\* NetworkSearchOptions: an optional member is a has-flag and a value. The sets
\* are arrays, as the tool's input schema has them (index.ts 152-166).
NoNetOptions ==
  [hasUrlPattern |-> FALSE, urlPattern |-> <<>>, hasMethod |-> FALSE, method |-> {},
   hasStatusCode |-> FALSE, statusCode |-> {}, hasStatusRange |-> FALSE,
   statusRange |-> [min |-> 0, max |-> 0], hasResourceType |-> FALSE,
   resourceType |-> {}, hasMinDuration |-> FALSE, minDuration |-> 0,
   hasMaxDuration |-> FALSE, maxDuration |-> 0, hasStart |-> FALSE, startTime |-> 0,
   hasEnd |-> FALSE, endTime |-> 0, hasLimit |-> FALSE, limit |-> 0]

\* String.prototype.toUpperCase on a method name
toUpperCase(method) == IF method = "get" THEN "GET" ELSE method

NoResponse == [requestId |-> "none", status |-> 0, hasResponseTime |-> FALSE,
               responseTime |-> 0]

\* new Map(responses.map(r => [r.requestId, r])).get(id): the last response
\* of the array with the id, or undefined.
responseMapGet(responses, id) ==
  LET at == {i \in DOMAIN responses : responses[i].requestId = id}
  IN  IF at = {} THEN [found |-> FALSE, response |-> NoResponse]
      ELSE [found |-> TRUE,
            response |-> responses[CHOOSE i \in at : \A j \in at : j <= i]]

\* Lines 51-54: every request with the response of its id, if there is one.
pairUp(requests, responses) ==
  [i \in DOMAIN requests |->
     LET got == responseMapGet(responses, requests[i].requestId)
     IN  [request |-> requests[i], hasResponse |-> got.found, response |-> got.response]]

\* The status filters letting a request without a response through.
statusFilter_keepsPending(e, o) ==
  /\ o.hasStatusCode => (~e.hasResponse \/ e.response.status \in o.statusCode)
  /\ o.hasStatusRange => (~e.hasResponse \/ (/\ e.response.status >= o.statusRange.min
                                             /\ e.response.status <= o.statusRange.max))

\* Lines 71-85: an array, also an empty one, and an object are truthy.
statusFilter(e, o) ==
  /\ o.hasStatusCode => (e.hasResponse /\ e.response.status \in o.statusCode)
  /\ o.hasStatusRange => /\ e.hasResponse
                         /\ e.response.status >= o.statusRange.min
                         /\ e.response.status <= o.statusRange.max

\* Lines 96-108: `!== undefined`, so a bound of 0 is a bound.
durationFilter(e, o) ==
  (o.hasMinDuration \/ o.hasMaxDuration) =>
     /\ e.hasResponse
     /\ e.response.hasResponseTime
     /\ o.hasMinDuration => e.response.responseTime >= o.minDuration
     /\ o.hasMaxDuration => e.response.responseTime <= o.maxDuration

\* Lines 57-68, 88-93 and 111-116: the filters on the request alone. An empty
\* urlPattern and a startTime or endTime of 0 are falsy and filter nothing.
requestFilter(e, o) ==
  /\ (o.hasUrlPattern /\ o.urlPattern # <<>>) => RegExpTest(o.urlPattern, TRUE, e.request.url)
  /\ o.hasMethod => toUpperCase(e.request.method) \in o.method
  /\ o.hasResourceType => (/\ e.request.hasResourceType
                           /\ e.request.resourceType \in o.resourceType)
  /\ (o.hasStart /\ o.startTime # 0) => e.request.timestamp >= o.startTime
  /\ (o.hasEnd /\ o.endTime # 0) => e.request.timestamp <= o.endTime

searchNetworkRequests(requests, responses, o) ==
  LET filtered == SelectSeq(pairUp(requests, responses),
                            LAMBDA e : /\ requestFilter(e, o)
                                       /\ statusFilter(e, o)
                                       /\ durationFilter(e, o))
  IN  IF limitApplies(o) THEN SliceLast(filtered, o.limit) ELSE filtered

\* Array.prototype.sort((a, b) => b.duration - a.duration) putting the
\* shortest duration first.
RECURSIVE sortSlowRequests_ascending(_)
sortSlowRequests_ascending(s) ==
  IF s = <<>> THEN <<>>
  ELSE LET front == sortSlowRequests_ascending(SubSeq(s, 1, Len(s) - 1))
           x == s[Len(s)]
           k == Cardinality({i \in DOMAIN front : front[i].duration <= x.duration})
       IN  SubSeq(front, 1, k) \o <<x>> \o SubSeq(front, k + 1, Len(front))

\* Line 175: Array.prototype.sort((a, b) => b.duration - a.duration), which is
\* stable: the longest duration first, equal durations in their order.
RECURSIVE sortSlowRequests(_)
sortSlowRequests(s) ==
  IF s = <<>> THEN <<>>
  ELSE LET front == sortSlowRequests(SubSeq(s, 1, Len(s) - 1))
           x == s[Len(s)]
           k == Cardinality({i \in DOMAIN front : front[i].duration >= x.duration})
       IN  SubSeq(front, 1, k) \o <<x>> \o SubSeq(front, k + 1, Len(front))

\* Array.prototype.reduce((sum, d) => sum + d, 0)
RECURSIVE sumOf(_)
sumOf(s) == IF s = <<>> THEN 0 ELSE s[1] + sumOf(Tail(s))

\* Array.prototype.slice(0, n)
SliceFirst(s, n) == IF Len(s) <= n THEN s ELSE SubSeq(s, 1, n)

\* Lines 164-170: the pairs whose response has a responseTime.
measuredPairs(requests, responses) ==
  SelectSeq(pairUp(requests, responses),
            LAMBDA e : e.hasResponse /\ e.response.hasResponseTime)

\* A number that is a quotient: sum / durations.length, or 0 (lines 179-181).
averageOf(durations) ==
  IF Len(durations) > 0 THEN [num |-> sumOf(durations), den |-> Len(durations)]
  ELSE [num |-> 0, den |-> 1]

analyzeNetworkPerformance(requests, responses) ==
  LET pairs == pairUp(requests, responses)
      answered == SelectSeq(pairs, LAMBDA e : e.hasResponse)
      measured == measuredPairs(requests, responses)
      durations == [i \in DOMAIN measured |-> measured[i].response.responseTime]
      slowRequests == [i \in DOMAIN measured |->
                         [url |-> measured[i].request.url,
                          duration |-> measured[i].response.responseTime]]
      typed == SelectSeq(requests, LAMBDA r : r.hasResourceType)
      statusGroups == {answered[i].response.status \div 100 : i \in DOMAIN answered}
      types == {typed[i].resourceType : i \in DOMAIN typed}
  IN  [totalRequests |-> Len(requests),
       failedRequests |-> Len(SelectSeq(answered, LAMBDA e : e.response.status >= 400)),
       averageResponseTime |-> averageOf(durations),
       slowestRequests |-> SliceFirst(sortSlowRequests(slowRequests), SlowestCap),
       requestsByStatus |->
         [g \in statusGroups |->
            Len(SelectSeq(answered, LAMBDA e : e.response.status \div 100 = g))],
       requestsByType |->
         [ty \in types |-> Len(SelectSeq(typed, LAMBDA r : r.resourceType = ty))]]

\* The arrays of SpecNet are what getNetworkRequests and getNetworkResponses
\* return: the values of a Map, so no requestId twice in either.
NetRequests ==
  { [requestId |-> "r1", url |-> <<"E">>, method |-> "get", hasResourceType |-> TRUE,
     resourceType |-> "XHR", timestamp |-> 1],
    [requestId |-> "r2", url |-> <<"e", "e">>, method |-> "POST",
     hasResourceType |-> FALSE, resourceType |-> "none", timestamp |-> 3],
    [requestId |-> "r3", url |-> <<"E">>, method |-> "GET", hasResourceType |-> TRUE,
     resourceType |-> "Image", timestamp |-> 3] }

NetResponses ==
  { [requestId |-> "r1", status |-> 404, hasResponseTime |-> TRUE, responseTime |-> 4000],
    [requestId |-> "r1", status |-> 200, hasResponseTime |-> FALSE, responseTime |-> 0],
    [requestId |-> "r2", status |-> 200, hasResponseTime |-> TRUE, responseTime |-> 100],
    [requestId |-> "r3", status |-> 500, hasResponseTime |-> TRUE, responseTime |-> 100] }

\* The filters of SpecNet: the response-dependent members and the limit in every
\* combination, the members on the request alone one at a time or all together.
NetFilters ==
  { [hasUrlPattern |-> rq \in {"url", "all"}, urlPattern |-> <<"e", "e">>,
     hasMethod |-> rq \in {"method", "all"}, method |-> {"GET"},
     hasStatusCode |-> sc # "none",
     statusCode |-> IF sc = "404" THEN {404} ELSE {},
     hasStatusRange |-> sr, statusRange |-> [min |-> 200, max |-> 299],
     hasResourceType |-> rq \in {"type", "all"}, resourceType |-> {"XHR"},
     hasMinDuration |-> mn >= 0, minDuration |-> IF mn >= 0 THEN mn ELSE 0,
     hasMaxDuration |-> mx >= 0, maxDuration |-> IF mx >= 0 THEN mx ELSE 0,
     hasStart |-> rq \in {"start", "all"}, startTime |-> 2,
     hasEnd |-> rq \in {"end", "all"}, endTime |-> 2,
     hasLimit |-> lim >= 0, limit |-> IF lim >= 0 THEN lim ELSE 0] :
    sc \in {"none", "empty", "404"}, sr \in BOOLEAN, mn \in {-1, 0, 100, 4000},
    mx \in {-1, 100}, lim \in -1..1,
    rq \in {"none", "url", "method", "type", "start", "end", "all"} }

NoNetResult == [called |-> "none"]

\* A request enters the array handed to the queries.
N_request(r) ==
  /\ Len(nRequests) < MaxNet
  /\ ~MapHas(nRequests, r.requestId)
  /\ nRequests' = Append(nRequests, WithUid(r, Len(nRequests) + 1))
  /\ nResult' = NoNetResult
  /\ UNCHANGED <<storeVars, searchVars, matchVars, corrVars, nResponses>>

\* A response enters the array handed to the queries.
N_response(r) ==
  /\ Len(nResponses) < MaxNet
  /\ ~MapHas(nResponses, r.requestId)
  /\ nResponses' = Append(nResponses, r)
  /\ nResult' = NoNetResult
  /\ UNCHANGED <<storeVars, searchVars, matchVars, corrVars, nRequests>>

\* One call of searchNetworkRequests on the two arrays as they are now.
N_search(o) ==
  /\ nResult = NoNetResult
  /\ nResult' = [called |-> "search", options |-> o,
                 out |-> searchNetworkRequests(nRequests, nResponses, o)]
  /\ UNCHANGED <<storeVars, searchVars, matchVars, corrVars, nRequests, nResponses>>

\* One call of analyzeNetworkPerformance on the two arrays as they are now.
N_analyze ==
  /\ nResult = NoNetResult
  /\ nResult' = [called |-> "analyze",
                 out |-> analyzeNetworkPerformance(nRequests, nResponses)]
  /\ UNCHANGED <<storeVars, searchVars, matchVars, corrVars, nRequests, nResponses>>

\* ------------------------------ AdvancedMatcher (error-correlation.ts 362-586)
\* A pattern that new RegExp rejects, such as "(".
InvalidPattern == <<"(">>

\* new RegExp(pattern, 'gi') does not throw.
Compiles(pattern) == pattern # InvalidPattern

\* RegExp.prototype.test of a regular expression with the flags g and i, for a
\* pattern of letters: the search starts at lastIndex; a match leaves lastIndex
\* after it, a failure resets lastIndex to 0.
RegExpTestGlobal(pattern, lastIndex, text) ==
  LET hits == {i \in lastIndex..(Len(text) - Len(pattern)) :
                 toLowerCase(SubSeq(text, i + 1, i + Len(pattern))) = toLowerCase(pattern)}
  IN  IF hits = {} THEN [found |-> FALSE, lastIndex |-> 0]
      ELSE LET first == CHOOSE i \in hits : \A j \in hits : i <= j
           IN  [found |-> TRUE, lastIndex |-> first + Len(pattern)]

\* String.prototype.match with such an expression: it sets lastIndex to 0,
\* collects every match and leaves lastIndex at 0.
StringMatch(text, pattern) == RegExpTestGlobal(pattern, 0, text).found

\* AdvancedSearchOptions as the console_advanced_search handler builds them
\* (index.ts 754: patterns and namedPatterns, no fields).
NoMatcherOptions ==
  [hasInclude |-> FALSE, include |-> <<>>, hasExclude |-> FALSE, exclude |-> <<>>,
   hasMode |-> FALSE, mode |-> "any", hasNamed |-> FALSE, named |-> <<>>]

\* compilePatterns (369-405): every compiled expression starts with lastIndex 0;
\* a pattern that does not compile gets no entry in compiledPatterns.
compilePatterns(o) ==
  [include |-> [i \in DOMAIN o.include |-> 0], exclude |-> [i \in DOMAIN o.exclude |-> 0]]

\* Lines 413-420 and 486-493: the exclude loop, which returns at the first hit.
RECURSIVE excludeLoop(_, _, _, _)
excludeLoop(o, lastIndex, text, i) ==
  IF ~o.hasExclude \/ i > Len(o.exclude) THEN [excluded |-> FALSE, lastIndex |-> lastIndex]
  ELSE IF ~Compiles(o.exclude[i]) THEN excludeLoop(o, lastIndex, text, i + 1)
  ELSE LET t == RegExpTestGlobal(o.exclude[i], lastIndex.exclude[i], text)
           after == [lastIndex EXCEPT !.exclude[i] = t.lastIndex]
       IN  IF t.found THEN [excluded |-> TRUE, lastIndex |-> after]
           ELSE excludeLoop(o, after, text, i + 1)

\* The include patterns that are compiled and match the text (427-437).
includeHits(o, text) ==
  {i \in DOMAIN o.include : Compiles(o.include[i]) /\ StringMatch(text, o.include[i])}

\* Lines 439-444 and 509-514: the count of matches against the length of the
\* include array as it was supplied.
includeRejects(o, matchCount) ==
  LET mode == IF o.hasMode THEN o.mode ELSE "any"
  IN  o.hasInclude /\ \/ (mode = "all" /\ matchCount < Len(o.include))
                      \/ (mode = "any" /\ matchCount = 0)

namedHits(o, text) ==
  {i \in DOMAIN o.named : Compiles(o.named[i]) /\ StringMatch(text, o.named[i])}

NoMatch == [matched |-> FALSE, score |-> 0]

\* matchConsoleMessage (407-473): the answer and the lastIndex values it leaves.
matchConsoleMessage(o, lastIndex, record) ==
  LET ex == excludeLoop(o, lastIndex, record.text, 1)
      inc == IF o.hasInclude THEN includeHits(o, record.text) ELSE {}
      nam == IF o.hasNamed THEN namedHits(o, record.text) ELSE {}
      score == 10 * Cardinality(inc) + 5 * Cardinality(nam)
  IN  [lastIndex |-> ex.lastIndex,
       out |-> IF ex.excluded \/ includeRejects(o, Cardinality(inc)) THEN NoMatch
               ELSE IF score > 0 THEN [matched |-> TRUE, score |-> score]
               ELSE NoMatch]

\* Lines 500-507: pattern.test(url) on the include patterns, then url.match,
\* which puts lastIndex back to 0.
includeTests(o, lastIndex, url) ==
  {i \in DOMAIN o.include :
     Compiles(o.include[i]) /\ RegExpTestGlobal(o.include[i], lastIndex.include[i], url).found}

\* matchNetworkRequest (475-542) on the request's url and header values.
matchNetworkRequest(o, lastIndex, record) ==
  LET ex == excludeLoop(o, lastIndex, record.text, 1)
      inc == IF o.hasInclude THEN includeTests(o, ex.lastIndex, record.text) ELSE {}
      nam == IF o.hasNamed THEN namedHits(o, record.text) ELSE {}
      headerHits == IF o.hasNamed
                    THEN {<<i, h>> \in (DOMAIN o.named) \X (DOMAIN record.headers) :
                            Compiles(o.named[i]) /\ StringMatch(record.headers[h], o.named[i])}
                    ELSE {}
      score == 10 * Cardinality(inc) + 5 * Cardinality(nam) + 3 * Cardinality(headerHits)
  IN  [lastIndex |-> [ex.lastIndex EXCEPT !.include = [i \in DOMAIN o.include |-> 0]],
       out |-> IF ex.excluded \/ includeRejects(o, Cardinality(inc)) THEN NoMatch
               ELSE IF score > 0 THEN [matched |-> TRUE, score |-> score]
               ELSE NoMatch]

\* records.map(r => matcher.match...(r)): one matcher, the records in order.
RECURSIVE mapMatcher(_, _, _, _)
mapMatcher(kind, o, lastIndex, records) ==
  IF records = <<>> THEN <<>>
  ELSE LET r == IF kind = "console" THEN matchConsoleMessage(o, lastIndex, Head(records))
                ELSE matchNetworkRequest(o, lastIndex, Head(records))
       IN  <<r.out>> \o mapMatcher(kind, o, r.lastIndex, Tail(records))

\* searchResults.slice(0, 100) (index.ts 780)
ResultLimit == 100

\* The results of console_advanced_search (index.ts 757-780): the matches in
\* the order of the messages, the first hundred of them.
searchResults(records, outcomes) ==
  LET answers == [i \in DOMAIN records |->
                    [item |-> records[i], matched |-> outcomes[i].matched,
                     score |-> outcomes[i].score]]
      kept == SelectSeq(answers, LAMBDA a : a.matched)
  IN  SliceFirst([i \in DOMAIN kept |-> [item |-> kept[i].item, score |-> kept[i].score]],
                 ResultLimit)

\* The records of SpecMatch: a message text, or a url with its header values.
MatchRecords ==
  { [text |-> <<"E">>, headers |-> <<>>],
    [text |-> <<"e", "e">>, headers |-> << <<"e">> >>],
    [text |-> <<"x">>, headers |-> <<>>] }

IncludeLists ==
  { <<>>, << <<"e">> >>, << <<"e", "e">> >>, << <<"e">>, <<"e", "e">> >>,
    << InvalidPattern >>, << <<"e">>, InvalidPattern >>, << InvalidPattern, <<"e", "e">> >> }

ExcludeLists ==
  { <<>>, << <<"e">> >>, << <<"e", "e">> >>, << <<"x">> >>, << InvalidPattern >>,
    << InvalidPattern, <<"e">> >>, << <<"e", "e">>, <<"x">> >> }

NamedLists == { <<>>, << <<"e">> >>, << InvalidPattern >>, << <<"x">>, InvalidPattern >> }

MatcherOptions ==
  { [hasInclude |-> inc # <<>>, include |-> inc, hasExclude |-> exc # <<>>,
     exclude |-> exc, hasMode |-> md # "absent",
     mode |-> IF md = "absent" THEN "any" ELSE md,
     hasNamed |-> nam # <<>>, named |-> nam] :
    inc \in IncludeLists, exc \in ExcludeLists, md \in {"absent", "any", "all"},
    nam \in NamedLists }

NotRun == [called |-> FALSE]

\* A record joins the ones that will be passed to the matcher.
M_push(r) ==
  /\ Len(mRecords) < MaxLen
  /\ mRecords' = Append(mRecords, WithUid(r, Len(mRecords) + 1))
  /\ mRun' = NotRun
  /\ UNCHANGED <<storeVars, searchVars, netVars, corrVars>>

\* new AdvancedMatcher(o) and the records passed to it one after another: to
\* matchConsoleMessage by console_advanced_search (index.ts 753-759), to
\* matchNetworkRequest by a caller of the class.
M_run(kind, o) ==
  /\ mRun = NotRun
  /\ LET outcomes == mapMatcher(kind, o, compilePatterns(o), mRecords)
     IN  mRun' = [called |-> TRUE, kind |-> kind, options |-> o, outcomes |-> outcomes,
                  results |-> searchResults(mRecords, outcomes)]
  /\ UNCHANGED <<storeVars, searchVars, netVars, corrVars, mRecords>>

\* ------------------------------- ErrorCorrelator (error-correlation.ts 24-321)
\* A message text is the sequence of its words; a word is lower-cased as a
\* whole. No word of the vocabulary is part of another one, so that
\* String.prototype.includes(keyword) on a text is membership of its words.
wordLower(w) == IF w = "AAA" THEN "aaa" ELSE w

\* /\b\d+\b/: the words that are numbers. They have fewer than three characters.
NumberWords == {"7", "9"}

stopWords == {"the", "is", "at", "in", "on", "and", "or", "to", "a", "an"}

\* extractKeywords (261-267): the lower-cased words longer than two characters
\* that are no stop words, in their order, repeated ones kept.
extractKeywords(text) ==
  SelectSeq([i \in DOMAIN text |-> wordLower(text[i])],
            LAMBDA w : w \notin NumberWords /\ w \notin stopWords)

\* The normalize closure of areSimilarErrors (238-245): numbers become NUM,
\* then the text is lower-cased.
normalize(text) ==
  [i \in DOMAIN text |-> IF text[i] \in NumberWords THEN "num" ELSE wordLower(text[i])]

\* msg.text.includes(request.url), msg.text.includes(String(response.status)):
\* the text holds the word as it is written.
textHas(text, word) == \E i \in DOMAIN text : text[i] = word

\* secondText.includes(keyword) on a lower-cased text
textIncludes(text, word) == \E i \in DOMAIN text : wordLower(text[i]) = word

\* areSimilarErrors (236-259). The ratio intersection.length / Math.min(...)
\* is NaN for 0/0, and NaN >= 0.8 is false; x / m >= 0.8 is 5x >= 4m.
areSimilarErrors(text1, text2) ==
  LET keywords1 == extractKeywords(text1)
      keywords2 == extractKeywords(text2)
      intersection == SelectSeq(keywords1,
                                LAMBDA k : \E i \in DOMAIN keywords2 : keywords2[i] = k)
      smaller == IF Len(keywords1) <= Len(keywords2) THEN Len(keywords1) ELSE Len(keywords2)
  IN  \/ normalize(text1) = normalize(text2)
      \/ smaller > 0 /\ 5 * Len(intersection) >= 4 * smaller

\* isPotentiallyCaused (223-234)
isPotentiallyCaused(first, second) ==
  \/ first.url # "none" /\ first.url = second.url
  \/ LET firstKeywords == extractKeywords(first.text)
     IN  \E i \in DOMAIN firstKeywords : textIncludes(second.text, firstKeywords[i])

\* isNetworkErrorMessage (208-221), on the words of the vocabulary
isNetworkErrorMessage(text) == textIncludes(text, "cors")

\* classifyError (269-278), on the words of the vocabulary
classifyError(text) ==
  IF textIncludes(text, "typeerror") THEN "TypeError" ELSE "UnknownError"

TIME_WINDOW == 5000

NoRootCause == [has |-> FALSE, type |-> "none", message |-> <<>>, source |-> "none"]

errorMessagesOf(messages) == SelectSeq(messages, LAMBDA m : m.level = "error")

\* Math.abs leaving its argument as it is.
Abs_signed(n) == n

\* |a - b|
Abs(n) == IF n < 0 THEN 0 - n ELSE n

\* Math.min / Math.max over a non-empty set of numbers
MinOf(ns) == CHOOSE n \in ns : \A k \in ns : n <= k
MaxOf(ns) == CHOOSE n \in ns : \A k \in ns : n >= k

\* correlateNetworkErrors (51-91): one correlation for every request whose
\* response has a status of 400 or more and some related console error.
correlateNetworkErrors(messages, requests, responses) ==
  LET errorMessages == errorMessagesOf(messages)
      pairs == pairUp(requests, responses)
      relatedErrors(e) ==
        SelectSeq(errorMessages,
                  LAMBDA msg : /\ Abs(msg.timestamp - e.response.timestamp) <= TIME_WINDOW
                               /\ \/ textHas(msg.text, e.request.url)
                                  \/ textHas(msg.text, ToString(e.response.status))
                                  \/ isNetworkErrorMessage(msg.text))
      failing == SelectSeq(pairs, LAMBDA e : /\ e.hasResponse
                                             /\ e.response.status >= 400
                                             /\ relatedErrors(e) # <<>>)
  IN  [i \in DOMAIN failing |->
         LET e == failing[i]
             related == relatedErrors(e)
             times == {related[k].timestamp : k \in DOMAIN related}
         IN  [id |-> <<"net-error", e.request.requestId>>, type |-> "console-network",
              severity |-> IF e.response.status >= 500 THEN "high" ELSE "medium",
              consoleMessages |-> related, networkRequests |-> <<e>>,
              rootCause |-> NoRootCause,
              timeSpan |-> [start |-> MinOf(times \cup {e.request.timestamp}),
                            end |-> MaxOf(times \cup {e.response.timestamp})]]]

\* Lines 101-110: the seed and the errors after it that it may have caused,
\* up to the first one later than the window.
cascadeFrom(sorted, i) ==
  LET within == {j \in (i + 1)..Len(sorted) :
                   \A k \in (i + 1)..j : sorted[k].timestamp - sorted[i].timestamp <= TIME_WINDOW}
      caused == SelectSeq([k \in 1..(Len(sorted) - i) |-> sorted[i + k]],
                          LAMBDA m : /\ \E j \in within : sorted[j] = m
                                     /\ isPotentiallyCaused(sorted[i], m))
  IN  <<sorted[i]>> \o caused

\* A cascade being reported from two errors on.
cascadeReported_fromTwo(cascade) == Len(cascade) > 1

\* Line 112: `cascade.length > 2`
cascadeReported(cascade) == Len(cascade) > 2

\* The loop of findCascadingErrors (100-135) from position i of the sorted
\* errors (position 1 is index 0): after a reported cascade, `i += cascade.length
\* - 1` and the loop's i++ move on by the number of its members.
RECURSIVE cascadeLoop(_, _)
cascadeLoop(sorted, i) ==
  IF i > Len(sorted) THEN <<>>
  ELSE LET cascade == cascadeFrom(sorted, i)
       IN  IF cascadeReported(cascade)
           THEN << [id |-> <<"cascade", i - 1>>, type |-> "cascade",
                    severity |-> IF Len(cascade) > 5 THEN "high" ELSE "medium",
                    consoleMessages |-> cascade, networkRequests |-> <<>>,
                    rootCause |-> NoRootCause,
                    timeSpan |-> [start |-> cascade[1].timestamp,
                                  end |-> cascade[Len(cascade)].timestamp]] >>
                  \o cascadeLoop(sorted, i + Len(cascade))
           ELSE cascadeLoop(sorted, i + 1)

\* findCascadingErrors (93-138)
findCascadingErrors(messages) ==
  cascadeLoop(SortByTimestamp(errorMessagesOf(messages)), 1)

\* Lines 146-160: every error joins the first group whose first member it is
\* similar to, or starts a group.
RECURSIVE groupErrors(_, _)
groupErrors(errors, groups) ==
  IF errors = <<>> THEN groups
  ELSE LET error == Head(errors)
           similar == {g \in DOMAIN groups : areSimilarErrors(error.text, groups[g][1].text)}
       IN  IF similar = {} THEN groupErrors(Tail(errors), Append(groups, <<error>>))
           ELSE LET g == MinOf(similar)
                IN  groupErrors(Tail(errors), [groups EXCEPT ![g] = Append(@, error)])

\* Lines 165-166 and 171: frequency = timeSpan > 0 ? length / timeSpan * 1000 : 0,
\* and `frequency > 1`.
frequencyIsHigh(group) ==
  LET timeSpan == group[Len(group)].timestamp - group[1].timestamp
  IN  timeSpan > 0 /\ Len(group) * 1000 > timeSpan

\* findRepeatedErrors (140-186)
findRepeatedErrors(messages) ==
  LET groups == groupErrors(errorMessagesOf(messages), <<>>)
      repeated == SelectSeq(groups, LAMBDA group : Len(group) >= 3)
  IN  [i \in DOMAIN repeated |->
         LET group == repeated[i]
         IN  [id |-> <<"repeated", group[1].timestamp>>, type |-> "repeated-error",
              severity |-> IF frequencyIsHigh(group) THEN "high" ELSE "medium",
              consoleMessages |-> group, networkRequests |-> <<>>,
              rootCause |-> NoRootCause,
              timeSpan |-> [start |-> group[1].timestamp,
                            end |-> group[Len(group)].timestamp]]]

\* identifyRootCauses (188-206), for one correlation
identifyRootCause(c) ==
  IF c.type = "cascade"
  THEN LET firstError == c.consoleMessages[1]
       IN  [c EXCEPT !.rootCause = [has |-> TRUE, type |-> classifyError(firstError.text),
                                    message |-> firstError.text,
                                    source |-> IF firstError.url # "none"
                                               THEN firstError.url ELSE "unknown"]]
  ELSE IF c.type = "console-network"
  THEN [c EXCEPT !.rootCause = [has |-> TRUE, type |-> "network",
                                message |-> <<ToString(c.networkRequests[1].response.status),
                                              c.networkRequests[1].request.method,
                                              c.networkRequests[1].request.url>>,
                                source |-> c.networkRequests[1].request.url]]
  ELSE c

\* correlateErrors (28-49): the three detectors' results one after another,
\* then the root causes.
correlateErrors(messages, requests, responses) ==
  LET correlations == correlateNetworkErrors(messages, requests, responses)
                        \o findCascadingErrors(messages)
                        \o findRepeatedErrors(messages)
  IN  [i \in DOMAIN correlations |-> identifyRootCause(correlations[i])]

\* The console messages of SpecCorrelate.
ErrorMessages ==
  { [level |-> "error", text |-> <<"aaa", "7">>, timestamp |-> 1000, url |-> "none"],
    [level |-> "error", text |-> <<"cors">>, timestamp |-> 1000, url |-> "u"],
    [level |-> "error", text |-> <<"aaa", "bbb">>, timestamp |-> 1000, url |-> "none"],
    [level |-> "error", text |-> <<"bbb">>, timestamp |-> 3000, url |-> "u"],
    [level |-> "log", text |-> <<"aaa">>, timestamp |-> 1000, url |-> "none"],
    [level |-> "error", text |-> <<"AAA", "9">>, timestamp |-> 7000, url |-> "none"] }

\* The network traffic of SpecCorrelate: none, or one request that failed.
NoTraffic == [requests |-> <<>>, responses |-> <<>>]
FailedRequest ==
  [requests |-> << [requestId |-> "r1", url |-> "v", method |-> "GET", timestamp |-> 900] >>,
   responses |-> << [requestId |-> "r1", status |-> 500, timestamp |-> 1000] >>]

\* The console messages and the network traffic of SpecNetErrors: errors that
\* name the url, the status code or a network failure, close to the response
\* or far from it, an error that has the url in another case, and requests
\* that failed, succeeded or got no response.
NetErrorMessages ==
  { [level |-> "error", text |-> <<"v">>, timestamp |-> 1000, url |-> "none"],
    [level |-> "error", text |-> <<"500">>, timestamp |-> 1000, url |-> "none"],
    [level |-> "error", text |-> <<"cors">>, timestamp |-> 7000, url |-> "none"],
    [level |-> "log", text |-> <<"cors">>, timestamp |-> 1000, url |-> "none"],
    [level |-> "error", text |-> <<"V">>, timestamp |-> 1000, url |-> "none"] }

TrafficCases ==
  { FailedRequest,
    [requests |-> << [requestId |-> "r1", url |-> "w", method |-> "GET", timestamp |-> 900],
                     [requestId |-> "r2", url |-> "v", method |-> "GET", timestamp |-> 900] >>,
     responses |-> << [requestId |-> "r2", status |-> 404, timestamp |-> 6000],
                      [requestId |-> "r1", status |-> 200, timestamp |-> 1000] >>],
    [requests |-> << [requestId |-> "r1", url |-> "w", method |-> "GET", timestamp |-> 900],
                     [requestId |-> "r2", url |-> "v", method |-> "GET", timestamp |-> 900] >>,
     responses |-> << [requestId |-> "r1", status |-> 500, timestamp |-> 6001] >>],
    [requests |-> << [requestId |-> "r1", url |-> "w", method |-> "GET", timestamp |-> 900],
                     [requestId |-> "r2", url |-> "w", method |-> "POST", timestamp |-> 950] >>,
     responses |-> << [requestId |-> "r1", status |-> 404, timestamp |-> 1000],
                      [requestId |-> "r2", status |-> 503, timestamp |-> 2000] >>] }

NotCorrelated == [called |-> FALSE]

\* A message is in the console buffer when error_correlate reads it.
E_push(m) ==
  /\ Len(eMessages) < MaxErrors
  /\ eMessages' = Append(eMessages, WithUid(m, Len(eMessages) + 1))
  /\ eRun' = NotCorrelated
  /\ UNCHANGED <<storeVars, searchVars, netVars, matchVars>>

\* new ErrorCorrelator().correlateErrors(messages, requests, responses)
\* (index.ts 831-832)
E_correlate(traffic) ==
  /\ eRun = NotCorrelated
  /\ eRun' = [called |-> TRUE, traffic |-> traffic,
              correlations |-> correlateErrors(eMessages, traffic.requests,
                                               traffic.responses)]
  /\ UNCHANGED <<storeVars, searchVars, netVars, matchVars, eMessages>>

\* ------------------------------------------------------------ SecurityScanner
\* A text, and the path and query of a url, is a sequence of words. A regular
\* expression of the scanner is given by the words of ScanWords it matches; a
\* match covers one word.

\* sensitivePatterns (lines 19-28), in the order of the table. The flags are gi
\* for the first five: `password[\s=:]+["']?([^"'\s]+)` takes any value,
\* `token[\s=:]+["']?([a-z0-9\-_]+)` a value of letters and digits.
sensitivePatterns ==
  << [type |-> "password", words |-> {"password=abc123"}],
     [type |-> "api_key", words |-> {}],
     [type |-> "token", words |-> {"token=t1"}],
     [type |-> "secret", words |-> {}],
     [type |-> "private_key", words |-> {"Private_Key=k1"}],
     [type |-> "email", words |-> {"a@b.co"}],
     [type |-> "credit_card", words |-> {}],
     [type |-> "ssn", words |-> {}] >>

\* xssPatterns (lines 233-240)
xssPatterns ==
  << {}, {"javascript:"}, {"onclick="}, {"eval("}, {}, {} >>

\* sensitivePathPatterns (lines 281-288)
sensitivePathPatterns ==
  << {"/home/bob"}, {}, {}, {}, {"node_modules"}, {} >>

\* securityHeaders (lines 30-38)
securityHeaders ==
  << "Strict-Transport-Security", "X-Content-Type-Options", "X-Frame-Options",
     "X-XSS-Protection", "Content-Security-Policy", "Referrer-Policy",
     "Permissions-Policy" >>

\* toLowerCase on the name of a header
headerLower(h) ==
  CASE h = "Strict-Transport-Security" -> "strict-transport-security"
    [] h = "X-Content-Type-Options" -> "x-content-type-options"
    [] h = "X-Frame-Options" -> "x-frame-options"
    [] h = "X-XSS-Protection" -> "x-xss-protection"
    [] h = "Content-Security-Policy" -> "content-security-policy"
    [] h = "Referrer-Policy" -> "referrer-policy"
    [] h = "Permissions-Policy" -> "permissions-policy"
    [] h = "Authorization" -> "authorization"
    [] OTHER -> h

\* new URL(url).hostname: the host in lower case
hostname(url) ==
  CASE url.host = "A.test" -> "a.test"
    [] url.host = "LOCALHOST" -> "localhost"
    [] OTHER -> url.host

\* The words of a url that the expressions are tested against.
urlWords(url) == <<url.scheme, url.host>> \o url.query

\* RegExp.prototype.test with the flag g: the search starts after lastIndex, a
\* match leaves lastIndex at its end, a failure resets it to 0.
testWords(words, lastIndex, text) ==
  LET hits == {i \in (lastIndex + 1)..Len(text) : text[i] \in words}
  IN  IF hits = {} THEN [found |-> FALSE, lastIndex |-> 0]
      ELSE [found |-> TRUE, lastIndex |-> CHOOSE i \in hits : \A j \in hits : i <= j]

\* String.prototype.match with the flag g: every match from the start of the
\* text, null if there is none.
matchWords(words, text) == \E i \in DOMAIN text : text[i] \in words

\* What every finding carries.
Issue(id, type, severity, source, message, timestamp, domain, missing) ==
  [id |-> id, type |-> type, severity |-> severity, source |-> source,
   message |-> message, timestamp |-> timestamp, domain |-> domain, missing |-> missing]

\* Array.prototype.flatMap
RECURSIVE Flatten(_)
Flatten(lists) == IF lists = <<>> THEN <<>> ELSE Head(lists) \o Flatten(Tail(lists))

\* The console scan reporting every match of an expression, not every message
\* that matches.
scanConsoleForSensitiveData_perMatch(messages) ==
  Flatten([m \in DOMAIN messages |->
    Flatten([p \in DOMAIN sensitivePatterns |->
      LET at == SelectSeq([i \in DOMAIN messages[m].text |-> i],
                          LAMBDA i : messages[m].text[i] \in sensitivePatterns[p].words)
      IN  [k \in DOMAIN at |->
             Issue(<<"console-sensitive", messages[m].timestamp, sensitivePatterns[p].type>>,
                   "sensitive-data",
                   IF sensitivePatterns[p].type \in {"password", "private_key"}
                   THEN "critical" ELSE "high",
                   "console", messages[m].text, messages[m].timestamp, "none", <<>>)]])])

\* scanConsoleForSensitiveData (73-110): every message against every entry of
\* the table with text.match.
scanConsoleForSensitiveData(messages) ==
  Flatten([m \in DOMAIN messages |->
    LET hit == SelectSeq(sensitivePatterns,
                         LAMBDA p : matchWords(p.words, messages[m].text))
    IN  [k \in DOMAIN hit |->
           Issue(<<"console-sensitive", messages[m].timestamp, hit[k].type>>,
                 "sensitive-data",
                 IF hit[k].type \in {"password", "private_key"} THEN "critical" ELSE "high",
                 "console", messages[m].text, messages[m].timestamp, "none", <<>>)]])

\* Lines 120-141: pattern.test(request.url) for every entry of the table, each
\* expression keeping its lastIndex.
RECURSIVE testEach(_, _, _)
testEach(k, lastIndex, text) ==
  IF k > Len(sensitivePatterns) THEN [lastIndex |-> lastIndex, found |-> <<>>]
  ELSE LET t == testWords(sensitivePatterns[k].words, lastIndex[k], text)
           rest == testEach(k + 1, [lastIndex EXCEPT ![k] = t.lastIndex], text)
       IN  [lastIndex |-> rest.lastIndex,
            found |-> (IF t.found THEN <<sensitivePatterns[k].type>> ELSE <<>>) \o rest.found]

\* containsSensitiveData (407-409): some() stops at the first expression that
\* matches.
RECURSIVE containsSensitiveData(_, _, _)
containsSensitiveData(k, lastIndex, text) ==
  IF k > Len(sensitivePatterns) THEN [lastIndex |-> lastIndex, found |-> FALSE]
  ELSE LET t == testWords(sensitivePatterns[k].words, lastIndex[k], text)
           after == [lastIndex EXCEPT ![k] = t.lastIndex]
       IN  IF t.found THEN [lastIndex |-> after, found |-> TRUE]
           ELSE containsSensitiveData(k + 1, after, text)

\* containsSensitiveHeaders (411-416)
containsSensitiveHeaders(headers) ==
  \E h \in headers : headerLower(h) \in {"authorization", "cookie", "x-api-key", "x-auth-token"}

\* scanNetworkSecurity (112-178), from request i on.
RECURSIVE scanNetworkSecurity(_, _, _)
scanNetworkSecurity(i, lastIndex, requests) ==
  IF i > Len(requests) THEN <<>>
  ELSE LET request == requests[i]
           inUrl == testEach(1, lastIndex, urlWords(request.url))
           insecure == /\ request.url.scheme = "http"
                       /\ ~textHas(urlWords(request.url), "localhost")
           inBody == IF insecure /\ request.postData # <<>>
                     THEN containsSensitiveData(1, inUrl.lastIndex, request.postData)
                     ELSE [lastIndex |-> inUrl.lastIndex, found |-> FALSE]
           hassSensitiveData == inBody.found \/ containsSensitiveHeaders(request.headers)
       IN  [k \in DOMAIN inUrl.found |->
              Issue(<<"url-sensitive", request.requestId, inUrl.found[k]>>, "sensitive-data",
                    "high", "network", <<>>, 0, "none", <<>>)]
           \o (IF insecure /\ hassSensitiveData
               THEN << Issue(<<"insecure-transmission", request.requestId>>,
                             "insecure-transmission", "critical", "network", <<>>, 0,
                             "none", <<>>) >>
               ELSE <<>>)
           \o scanNetworkSecurity(i + 1, inBody.lastIndex, requests)

\* scanCORSIssues (181-229)
scanCORSIssues(requests, responses) ==
  LET pairs == pairUp(requests, responses)
      risky == SelectSeq(pairs, LAMBDA e : /\ e.hasResponse
                                           /\ e.response.corsOrigin = "*"
                                           /\ e.response.corsCredentials = "true")
  IN  [k \in DOMAIN risky |->
         Issue(<<"cors-wildcard-credentials", risky[k].request.requestId>>,
               "cors-misconfiguration", "high", "network", <<>>, 0, "none", <<>>)]

\* The loop over the expressions of scanXSSRisks and scanExposedErrors: test
\* one after another until one matches (break).
RECURSIVE testUntilFound(_, _, _, _)
testUntilFound(patterns, k, lastIndex, text) ==
  IF k > Len(patterns) THEN [lastIndex |-> lastIndex, found |-> FALSE]
  ELSE LET t == testWords(patterns[k], lastIndex[k], text)
           after == [lastIndex EXCEPT ![k] = t.lastIndex]
       IN  IF t.found THEN [lastIndex |-> after, found |-> TRUE]
           ELSE testUntilFound(patterns, k + 1, after, text)

\* scanXSSRisks (231-277), from message i on: the expressions are made once
\* for the scan and keep their lastIndex from one message to the next.
RECURSIVE scanXSSRisks(_, _, _)
scanXSSRisks(i, lastIndex, messages) ==
  IF i > Len(messages) THEN <<>>
  ELSE IF messages[i].level # "error" THEN scanXSSRisks(i + 1, lastIndex, messages)
  ELSE LET t == testUntilFound(xssPatterns, 1, lastIndex, messages[i].text)
       IN  (IF t.found
            THEN << Issue(<<"xss-risk", messages[i].timestamp>>, "xss-risk", "high",
                          "console", messages[i].text, messages[i].timestamp, "none",
                          <<>>) >>
            ELSE <<>>)
           \o scanXSSRisks(i + 1, t.lastIndex, messages)

\* scanExposedErrors (279-343), from error message i on: the path expressions
\* are made once for the scan and keep their lastIndex from one message to the
\* next; then the length of the stack trace.
RECURSIVE scanExposedErrors(_, _, _)
scanExposedErrors(i, lastIndex, errorMessages) ==
  IF i > Len(errorMessages) THEN <<>>
  ELSE LET message == errorMessages[i]
           t == testUntilFound(sensitivePathPatterns, 1, lastIndex, message.text)
       IN  (IF t.found
            THEN << Issue(<<"exposed-path", message.timestamp>>, "exposed-error", "medium",
                          "console", message.text, message.timestamp, "none", <<>>) >>
            ELSE <<>>)
           \o (IF message.stackTrace > 500
               THEN << Issue(<<"exposed-stacktrace", message.timestamp>>, "exposed-error",
                             "low", "console", message.text, message.timestamp, "none",
                             <<>>) >>
               ELSE <<>>)
           \o scanExposedErrors(i + 1, t.lastIndex, errorMessages)

\* Lines 364-373: the headers of the checklist that the response does not have,
\* names compared in lower case.
missingHeaders(response) ==
  SelectSeq(securityHeaders,
            LAMBDA header : ~\E h \in response.headers : headerLower(h) = headerLower(header))

\* scanSecurityHeaders (345-405), from request i on: checkedDomains holds the
\* hostnames already looked at.
RECURSIVE scanSecurityHeaders(_, _, _)
scanSecurityHeaders(i, checkedDomains, pairs) ==
  IF i > Len(pairs) THEN <<>>
  ELSE LET e == pairs[i]
           domain == hostname(e.request.url)
       IN  IF ~e.hasResponse \/ e.response.status >= 400 \/ domain \in checkedDomains
           THEN scanSecurityHeaders(i + 1, checkedDomains, pairs)
           ELSE LET missing == missingHeaders(e.response)
                IN  (IF domain \notin {"localhost", "127.0.0.1"} /\ missing # <<>>
                     THEN << Issue(<<"missing-headers", domain>>, "missing-headers",
                                   IF headerLower("Strict-Transport-Security")
                                        \in {headerLower(missing[k]) : k \in DOMAIN missing}
                                   THEN "high" ELSE "medium",
                                   "network", <<>>, 0, domain, missing) >>
                     ELSE <<>>)
                    \o scanSecurityHeaders(i + 1, checkedDomains \cup {domain}, pairs)

\* Lines 65-68: a stable sort by severity.
sortBySeverity(issues) ==
  SelectSeq(issues, LAMBDA x : x.severity = "critical")
    \o SelectSeq(issues, LAMBDA x : x.severity = "high")
    \o SelectSeq(issues, LAMBDA x : x.severity = "medium")
    \o SelectSeq(issues, LAMBDA x : x.severity = "low")

\* scanForVulnerabilities (40-71)
scanForVulnerabilities(messages, requests, responses) ==
  LET fresh(patterns) == [k \in DOMAIN patterns |-> 0]
  IN  sortBySeverity(
        scanConsoleForSensitiveData(messages)
        \o scanNetworkSecurity(1, fresh(sensitivePatterns), requests)
        \o scanCORSIssues(requests, responses)
        \o scanXSSRisks(1, fresh(xssPatterns), messages)
        \o scanExposedErrors(1, fresh(sensitivePathPatterns), errorMessagesOf(messages))
        \o scanSecurityHeaders(1, {}, pairUp(requests, responses)))

\* The console messages of SpecScan.
ScanMessages ==
  { [level |-> "error", text |-> <<"/home/bob">>, timestamp |-> 1000, url |-> "none",
     stackTrace |-> 0],
    [level |-> "error", text |-> <<"plain", "node_modules">>, timestamp |-> 2000,
     url |-> "none", stackTrace |-> 0],
    [level |-> "log", text |-> <<"password=abc123", "/home/bob">>, timestamp |-> 1000,
     url |-> "none", stackTrace |-> 0],
    [level |-> "error", text |-> <<"Private_Key=k1", "eval(">>, timestamp |-> 1000,
     url |-> "none", stackTrace |-> 0],
    [level |-> "log", text |-> <<"token=%", "token=t1", "token=t1">>, timestamp |-> 3000,
     url |-> "none", stackTrace |-> 0],
    [level |-> "error", text |-> <<"plain">>, timestamp |-> 1000, url |-> "none",
     stackTrace |-> 600] }

\* The requests and responses of SpecScanNetwork.
ScanRequests ==
  { [requestId |-> "r1", url |-> [scheme |-> "https", host |-> "a.test", query |-> <<>>],
     postData |-> <<>>, headers |-> {}],
    [requestId |-> "r2", url |-> [scheme |-> "https", host |-> "A.test",
                                  query |-> <<"token=t1">>],
     postData |-> <<>>, headers |-> {}],
    [requestId |-> "r2", url |-> [scheme |-> "http", host |-> "b.test", query |-> <<>>],
     postData |-> <<"password=abc123">>, headers |-> {"Authorization"}],
    [requestId |-> "r3", url |-> [scheme |-> "http", host |-> "LOCALHOST", query |-> <<>>],
     postData |-> <<>>, headers |-> {}] }

AllHeaders ==
  {"strict-transport-security", "X-Content-Type-Options", "x-frame-options",
   "X-XSS-Protection", "content-security-policy", "Referrer-Policy", "permissions-policy"}

ScanResponses ==
  { [requestId |-> "r1", status |-> 200, headers |-> AllHeaders, corsOrigin |-> "none",
     corsCredentials |-> "none"],
    [requestId |-> "r1", status |-> 200, headers |-> {"x-frame-options"},
     corsOrigin |-> "*", corsCredentials |-> "true"],
    [requestId |-> "r1", status |-> 404, headers |-> {}, corsOrigin |-> "none",
     corsCredentials |-> "none"],
    [requestId |-> "r2", status |-> 200, headers |-> AllHeaders \ {"X-XSS-Protection"},
     corsOrigin |-> "*", corsCredentials |-> "none"],
    [requestId |-> "r2", status |-> 200, headers |-> AllHeaders, corsOrigin |-> "none",
     corsCredentials |-> "none"],
    [requestId |-> "r3", status |-> 200, headers |-> {}, corsOrigin |-> "none",
     corsCredentials |-> "none"] }

\* The security_scan tool (index.ts 858-898): a new SecurityScanner scans the
\* three buffers.
security_scan ==
  /\ eRun = NotCorrelated
  /\ eRun' = [called |-> TRUE, messages |-> eMessages, requests |-> nRequests,
              responses |-> nResponses,
              issues |-> scanForVulnerabilities(eMessages, nRequests, nResponses)]
  /\ UNCHANGED <<storeVars, searchVars, netVars, matchVars, eMessages>>

\* ---------------------------------------------------------- correlateMessages
\* getFieldValue (628-641) for a path of one part: String(obj[part]), or
\* undefined when the object has no such property.
NoValue == "(undefined)"

getFieldValue(obj, fieldPath) ==
  IF fieldPath \in DOMAIN obj THEN obj[fieldPath] ELSE NoValue

\* Line 600-602: the values of the fields, 'unknown' for a value that is
\* undefined or empty, joined by '_'; `group_${i}` without fields.
groupKeyOf(current, i, options) ==
  IF options.hasFields
  THEN [f \in DOMAIN options.fields |->
          LET v == getFieldValue(current, options.fields[f])
          IN  IF v \in {NoValue, ""} THEN "unknown" ELSE v]
  ELSE <<"group", ToString(i - 1)>>

\* Lines 606-619: the messages after position i, up to the first one outside
\* the window, that agree with sorted[i] in every field.
RECURSIVE relatedAfter(_, _, _, _)
relatedAfter(sorted, i, j, options) ==
  IF j > Len(sorted) \/ sorted[j].timestamp - sorted[i].timestamp > options.timeWindow
  THEN <<>>
  ELSE (IF ~options.hasFields
           \/ \A f \in DOMAIN options.fields :
                getFieldValue(sorted[i], options.fields[f])
                  = getFieldValue(sorted[j], options.fields[f])
        THEN <<sorted[j]>> ELSE <<>>)
       \o relatedAfter(sorted, i, j + 1, options)

\* Map.prototype.set on the groups: a key that is there keeps its place and
\* gets the new value.
groupsSet(groups, key, group) ==
  IF \E k \in DOMAIN groups : groups[k].key = key
  THEN [k \in DOMAIN groups |->
          IF groups[k].key = key THEN [key |-> key, group |-> group] ELSE groups[k]]
  ELSE Append(groups, [key |-> key, group |-> group])

\* The loop of lines 598-623 from position i on.
RECURSIVE correlateLoop(_, _, _, _)
correlateLoop(sorted, i, groups, options) ==
  IF i > Len(sorted) THEN groups
  ELSE LET group == <<sorted[i]>> \o relatedAfter(sorted, i, i + 1, options)
       IN  correlateLoop(sorted, i + 1,
                         IF Len(group) > 1
                         THEN groupsSet(groups, groupKeyOf(sorted[i], i, options), group)
                         ELSE groups,
                         options)

\* correlateMessages (589-626): the entries of the Map in insertion order.
correlateMessages(messages, options) ==
  correlateLoop(SortByTimestamp(messages), 1, <<>>, options)

\* The console messages of SpecGroup and the correlate argument of
\* console_advanced_search, with or without fields.
GroupMessages ==
  { [level |-> "error", text |-> <<"aaa">>, timestamp |-> 1000, url |-> "u"],
    [level |-> "error", text |-> <<"bbb">>, timestamp |-> 1500, url |-> "u"],
    [level |-> "log", text |-> <<"aaa">>, timestamp |-> 1200, url |-> ""],
    [level |-> "error", text |-> <<"aaa">>, timestamp |-> 7000, url |-> "w"] }

CorrelateOptions ==
  { [timeWindow |-> w, hasFields |-> fields # <<>>, fields |-> fields] :
      w \in {0, 1000}, fields \in {<<>>, <<"level">>, <<"url", "stackTrace">>} }

\* console_advanced_search with a correlate argument (index.ts 761-765 and
\* 781): correlations stay null without a timeWindow or with timeWindow 0.
console_advanced_search_correlate(correlate) ==
  /\ eRun = NotCorrelated
  /\ eRun' = [called |-> TRUE, options |-> correlate,
              correlated |-> correlate.timeWindow # 0,
              groups |-> IF correlate.timeWindow # 0
                         THEN correlateMessages(eMessages, correlate) ELSE <<>>]
  /\ UNCHANGED <<storeVars, searchVars, netVars, matchVars, eMessages>>

\* -------------------------------------------------------- PerformanceProfiler
\* request.resourceType || 'Other'
resourceTypeOf(request) ==
  IF request.hasResourceType THEN request.resourceType ELSE "Other"

\* response.responseTime || 0
responseTimeOf(response) ==
  IF response.hasResponseTime THEN response.responseTime ELSE 0

\* calculateResourceMetrics (lines 109-155): one entry for every type among
\* the requests; avgDuration is the quotient totalDuration / count.
calculateResourceMetrics(requests, responses) ==
  LET pairs == pairUp(requests, responses)
  IN  [type \in {resourceTypeOf(requests[i]) : i \in DOMAIN requests} |->
         LET mine == SelectSeq(pairs, LAMBDA e : resourceTypeOf(e.request) = type)
             answered == SelectSeq(mine, LAMBDA e : e.hasResponse)
             totalDuration == sumOf([k \in DOMAIN answered |->
                                       responseTimeOf(answered[k].response)])
         IN  [count |-> Len(mine),
              totalSize |-> sumOf([k \in DOMAIN answered |->
                                     answered[k].response.encodedDataLength]),
              totalDuration |-> totalDuration,
              avgDuration |-> [num |-> totalDuration, den |-> Len(mine)],
              cached |-> Len(SelectSeq(answered,
                               LAMBDA e : e.response.status = 304 \/ e.response.cacheHit)),
              failed |-> Len(SelectSeq(answered, LAMBDA e : e.response.status >= 400))]]

\* generateWaterfall (157-197): the answered requests in the order of their
\* timestamps, each with the number of other answered requests that overlap it.
generateWaterfall(requests, responses) ==
  LET answered == SelectSeq(pairUp(SortByTimestamp(requests), responses),
                            LAMBDA e : e.hasResponse)
  IN  [k \in DOMAIN answered |->
         LET startTime == answered[k].request.timestamp
             endTime == answered[k].response.timestamp
             overlapping == SelectSeq(answered, LAMBDA r :
                              \/ r.request.timestamp <= startTime
                                   /\ r.response.timestamp >= startTime
                              \/ r.request.timestamp >= startTime
                                   /\ r.request.timestamp <= endTime)
         IN  [url |-> answered[k].request.url, startTime |-> startTime,
              endTime |-> endTime, duration |-> responseTimeOf(answered[k].response),
              type |-> resourceTypeOf(answered[k].request),
              status |-> answered[k].response.status,
              parallelRequests |-> Len(overlapping) - 1]]

\* Lines 209-226: the priority of an answered request.
priorityOf(e) ==
  LET byType == IF e.request.hasResourceType
                     /\ \/ e.request.resourceType \in {"Document", "Stylesheet"}
                        \/ e.request.resourceType = "Script"
                             /\ ~textHas(e.request.url, "async")
                THEN "high"
                ELSE IF e.request.hasResourceType /\ e.request.resourceType = "Font"
                THEN "medium" ELSE "low"
  IN  IF responseTimeOf(e.response) > 1000 /\ byType = "low" THEN "medium" ELSE byType

\* identifyCriticalResources (199-248): the answered requests of priority high
\* or medium, sorted by priority and then by falling duration (a stable sort).
RECURSIVE sortCritical(_)
sortCritical(s) ==
  IF s = <<>> THEN <<>>
  ELSE LET front == sortCritical(SubSeq(s, 1, Len(s) - 1))
           x == s[Len(s)]
           before(y) == IF y.priority # x.priority THEN y.priority = "high"
                        ELSE y.duration >= x.duration
           k == Cardinality({i \in DOMAIN front : before(front[i])})
       IN  SubSeq(front, 1, k) \o <<x>> \o SubSeq(front, k + 1, Len(front))

identifyCriticalResources(requests, responses) ==
  LET answered == SelectSeq(pairUp(requests, responses),
                            LAMBDA e : e.hasResponse /\ priorityOf(e) # "low")
  IN  sortCritical([k \in DOMAIN answered |->
        [url |-> answered[k].request.url, type |-> resourceTypeOf(answered[k].request),
         duration |-> responseTimeOf(answered[k].response),
         size |-> answered[k].response.encodedDataLength,
         priority |-> priorityOf(answered[k]),
         blockingTime |-> IF resourceTypeOf(answered[k].request)
                               \in {"Document", "Stylesheet", "Script"}
                               /\ priorityOf(answered[k]) = "high"
                          THEN responseTimeOf(answered[k].response) ELSE 0]])

\* One bottleneck: `count` is the number in its description, resources the
\* first five urls.
Bottleneck(type, impact, urls) ==
  IF urls = <<>> THEN <<>>
  ELSE << [type |-> type, impact |-> impact, count |-> Len(urls),
           resources |-> SliceFirst(urls, 5)] >>

\* detectBottlenecks (250-329)
detectBottlenecks(requests, responses, waterfall) ==
  LET urlsOf(s) == [k \in DOMAIN s |-> s[k].url]
      slowResources == SelectSeq(waterfall, LAMBDA w : w.duration > 2000)
      failedResources == SelectSeq(waterfall, LAMBDA w : w.status >= 400)
      largeResources == SelectSeq(pairUp(requests, responses),
                          LAMBDA e : e.hasResponse
                                       /\ e.response.encodedDataLength > 1024 * 1024)
      blockingResources == SelectSeq(waterfall,
                             LAMBDA w : /\ w.type \in {"Script", "Stylesheet"}
                                        /\ w.parallelRequests < 2
                                        /\ w.duration > 500)
  IN  Bottleneck("slow-resource", "high", urlsOf(slowResources))
      \o Bottleneck("failed-resource", "high", urlsOf(failedResources))
      \o Bottleneck("large-resource", "medium",
                    [k \in DOMAIN largeResources |-> largeResources[k].request.url])
      \o Bottleneck("blocking-resource", "high", urlsOf(blockingResources))

\* calculateTiming (331-360)
calculateTiming(requests, responses) ==
  IF requests = <<>> THEN [totalDuration |-> 0, networkTime |-> 0, renderTime |-> 0]
  ELSE LET answered == SelectSeq(pairUp(requests, responses), LAMBDA e : e.hasResponse)
           startTime == MinOf({requests[i].timestamp : i \in DOMAIN requests})
           endTime == MaxOf({startTime}
                        \cup {answered[k].response.timestamp : k \in DOMAIN answered})
           totalNetworkTime == sumOf([k \in DOMAIN answered |->
                                        responseTimeOf(answered[k].response)])
       IN  [totalDuration |-> endTime - startTime, networkTime |-> totalNetworkTime,
            renderTime |-> MaxOf({0, (endTime - startTime) - totalNetworkTime})]

\* Math.round of the quotient num / den of two naturals, den > 0
Round(num, den) == (2 * num + den) \div (2 * den)

\* generateRecommendations (362-401): every recommendation is a sentence with
\* one number in it.
generateRecommendations(resourceMetrics, bottlenecks) ==
  LET types == DOMAIN resourceMetrics
      total(field) == LET RECURSIVE sumOver(_)
                          sumOver(ts) == IF ts = {} THEN 0
                                         ELSE LET t == CHOOSE t \in ts : TRUE
                                              IN  resourceMetrics[t][field]
                                                    + sumOver(ts \ {t})
                      IN  sumOver(types)
      totalRequests == total("count")
      totalCached == total("cached")
      lowCacheRate == IF totalRequests > 0 THEN 10 * totalCached < 3 * totalRequests
                      ELSE TRUE
      highImpactBottlenecks == SelectSeq(bottlenecks, LAMBDA b : b.impact = "high")
  IN  (IF totalRequests > 100
       THEN <<[kind |-> "requests", value |-> totalRequests]>> ELSE <<>>)
      \o (IF lowCacheRate
          THEN <<[kind |-> "caching",
                  value |-> IF totalRequests > 0
                            THEN Round(100 * totalCached, totalRequests) ELSE 0]>>
          ELSE <<>>)
      \o (IF "Image" \in types /\ resourceMetrics["Image"].count > 50
          THEN <<[kind |-> "images", value |-> resourceMetrics["Image"].count]>>
          ELSE <<>>)
      \o (IF "Script" \in types /\ resourceMetrics["Script"].totalSize > 500 * 1024
          THEN <<[kind |-> "compression",
                  value |-> Round(resourceMetrics["Script"].totalSize, 1024)]>>
          ELSE <<>>)
      \o (IF highImpactBottlenecks # <<>>
          THEN <<[kind |-> "high-impact", value |-> Len(highImpactBottlenecks)]>>
               \o [k \in DOMAIN highImpactBottlenecks |->
                     [kind |-> highImpactBottlenecks[k].type,
                      value |-> highImpactBottlenecks[k].count]]
          ELSE <<>>)

\* analyzePerformance (64-107), called without pageMetrics: navigation has no
\* defined member.
analyzePerformance(requests, responses) ==
  LET resourceMetrics == calculateResourceMetrics(requests, responses)
      waterfall == generateWaterfall(requests, responses)
      bottlenecks == detectBottlenecks(requests, responses, waterfall)
  IN  [resources |-> [total |-> Len(requests), byType |-> resourceMetrics,
                      critical |-> identifyCriticalResources(requests, responses),
                      waterfall |-> SliceFirst(waterfall, 50)],
       timing |-> calculateTiming(requests, responses),
       bottlenecks |-> bottlenecks,
       recommendations |-> generateRecommendations(resourceMetrics, bottlenecks)]

\* The requests and responses of SpecProfile.
ProfileRequests ==
  { [requestId |-> "r1", url |-> <<"app.js">>, hasResourceType |-> TRUE,
     resourceType |-> "Script", timestamp |-> 1000],
    [requestId |-> "r1", url |-> <<"async", "lib.js">>, hasResourceType |-> TRUE,
     resourceType |-> "Script", timestamp |-> 3000],
    [requestId |-> "r2", url |-> <<"logo.png">>, hasResourceType |-> TRUE,
     resourceType |-> "Image", timestamp |-> 2000],
    [requestId |-> "r2", url |-> <<"data">>, hasResourceType |-> FALSE,
     resourceType |-> "none", timestamp |-> 1000] }

ProfileResponses ==
  { [requestId |-> "r1", status |-> 200, timestamp |-> 4000, hasResponseTime |-> TRUE,
     responseTime |-> 3000, encodedDataLength |-> 600 * 1024, cacheHit |-> FALSE],
    [requestId |-> "r1", status |-> 304, timestamp |-> 1100, hasResponseTime |-> TRUE,
     responseTime |-> 100, encodedDataLength |-> 0, cacheHit |-> FALSE],
    [requestId |-> "r2", status |-> 404, timestamp |-> 2600, hasResponseTime |-> TRUE,
     responseTime |-> 600, encodedDataLength |-> 0, cacheHit |-> FALSE],
    [requestId |-> "r2", status |-> 200, timestamp |-> 1500, hasResponseTime |-> FALSE,
     responseTime |-> 0, encodedDataLength |-> 2048 * 1024, cacheHit |-> TRUE] }

\* The performance_profile tool (index.ts 789-818): the metrics of
\* analyzePerformance, then the waterfall and the recommendations emptied when
\* the arguments say so.
performance_profile(includeWaterfall, includeRecommendations) ==
  /\ nResult = NoNetResult
  /\ LET metrics == analyzePerformance(nRequests, nResponses)
     IN  nResult' =
           [called |-> "profile", requests |-> nRequests, responses |-> nResponses,
            metrics |-> metrics,
            returned |-> [metrics EXCEPT
                            !.resources.waterfall = IF includeWaterfall THEN @ ELSE <<>>,
                            !.recommendations = IF includeRecommendations THEN @ ELSE <<>>]]
  /\ UNCHANGED <<storeVars, searchVars, matchVars, corrVars, nRequests, nResponses>>

\* The error_correlate tool (index.ts 820-856). The handler takes tabId and
\* minSeverity out of its arguments, runs correlateErrors on the three buffers
\* and keeps the correlations of at least the minimum severity.
severityOrder(severity) ==
  CASE severity = "low" -> 0
    [] severity = "medium" -> 1
    [] severity = "high" -> 2

CorrelateArgs ==
  { [hasTimeWindow |-> w # 0, timeWindow |-> w, minSeverity |-> s] :
      w \in {0, 1000, 10000}, s \in {"undefined", "high"} }

error_correlate(args, traffic) ==
  /\ eRun = NotCorrelated
  /\ LET minSeverity == IF args.minSeverity = "undefined" THEN "low" ELSE args.minSeverity
         correlations == correlateErrors(eMessages, traffic.requests, traffic.responses)
         filtered == SelectSeq(correlations,
                       LAMBDA c : severityOrder(c.severity) >= severityOrder(minSeverity))
     IN  eRun' = [called |-> TRUE, traffic |-> traffic, args |-> args,
                  correlations |-> filtered]
  /\ UNCHANGED <<storeVars, searchVars, netVars, matchVars, eMessages>>

\* ------------------------------------------------------------ specifications
\* The store, its transport and the tool handlers.
Next ==
  \/ \E t \in Tabs : connectToTab_rejected(t)
  \/ \E t \in Tabs : connectToTab_store(t)
  \/ \E c \in ClientIds : connectToTab_listen(c)
  \/ \E c \in ClientIds : connectToTab_enableFailed(c)
  \/ \E t \in Tabs : disconnectTab_noClient(t)
  \/ \E t \in Tabs : disconnectTab_close(t)
  \/ \E t \in Tabs : disconnectTab_done(t)
  \/ \E c \in ClientIds, m \in StoreMessages : Console_messageAdded(c, m)
  \/ \E c \in ClientIds, m \in StoreMessages : Runtime_consoleAPICalled(c, m)
  \/ \E c \in ClientIds, rid \in RequestIds : Network_requestWillBeSent(c, rid)
  \/ \E c \in ClientIds, rid \in RequestIds : Network_responseReceived(c, rid)
  \/ \E op \in QueryOps, t \in Tabs, o \in ToolFilters \cup {NoOptions} : Query(op, t, o)

Spec == Init /\ [][Next]_vars

\* The store, its transport and a reader that keeps what a getter returned.
NextRead ==
  \/ \E t \in Tabs : connectToTab_store(t)
  \/ \E c \in ClientIds : connectToTab_listen(c)
  \/ \E t \in Tabs : disconnectTab_close(t)
  \/ \E t \in Tabs : disconnectTab_done(t)
  \/ \E c \in ClientIds, m \in StoreMessages : Console_messageAdded(c, m)
  \/ \E c \in ClientIds, m \in StoreMessages : Runtime_consoleAPICalled(c, m)
  \/ \E c \in ClientIds, rid \in RequestIds : Network_requestWillBeSent(c, rid)
  \/ \E c \in ClientIds, rid \in RequestIds : Network_responseReceived(c, rid)
  \/ \E t \in Tabs, kind \in {"console", "requests", "responses"} : Read(kind, t)

SpecRead == Init /\ [][NextRead]_vars

\* searchConsoleMessages called again and again on one array.
NextSearch ==
  \/ \E m \in SearchMessages : S_push(m)
  \/ \E o \in SearchFilters : S_search(o)

SpecSearch == Init /\ [][NextSearch]_vars

\* searchNetworkRequests and analyzeNetworkPerformance on what the getters return.
NextNet ==
  \/ \E r \in NetRequests : N_request(r)
  \/ \E r \in NetResponses : N_response(r)
  \/ \E o \in NetFilters : N_search(o)
  \/ N_analyze

SpecNet == Init /\ [][NextNet]_vars

\* One AdvancedMatcher and the records passed to it.
NextMatch ==
  \/ \E r \in MatchRecords : M_push(r)
  \/ \E kind \in {"console", "network"}, o \in MatcherOptions : M_run(kind, o)

SpecMatch == Init /\ [][NextMatch]_vars

\* correlateErrors on a console buffer.
NextCorrelate ==
  \/ \E m \in ErrorMessages : E_push(m)
  \/ \E traffic \in {NoTraffic, FailedRequest} : E_correlate(traffic)

SpecCorrelate == Init /\ [][NextCorrelate]_vars

\* correlateErrors on a console buffer and network traffic with failed requests.
NextNetErrors ==
  \/ \E m \in NetErrorMessages : E_push(m)
  \/ \E traffic \in TrafficCases : E_correlate(traffic)

SpecNetErrors == Init /\ [][NextNetErrors]_vars

\* The error_correlate tool on a buffer of console errors and one failed request.
NextErrorCorrelate ==
  \/ \E m \in {m \in NetErrorMessages : m.level = "error"} : E_push(m)
  \/ \E args \in CorrelateArgs :
       \E traffic \in {t \in TrafficCases : Len(t.responses) = 1} :
         error_correlate(args, traffic)

SpecErrorCorrelate == Init /\ [][NextErrorCorrelate]_vars

\* correlateMessages on a console buffer.
NextGroup ==
  \/ \E m \in GroupMessages : E_push(m)
  \/ \E correlate \in CorrelateOptions : console_advanced_search_correlate(correlate)

SpecGroup == Init /\ [][NextGroup]_vars

\* The performance profile of network traffic.
NextProfile ==
  \/ \E r \in ProfileRequests : N_request(r)
  \/ \E r \in ProfileResponses : N_response(r)
  \/ \E includeWaterfall, includeRecommendations \in BOOLEAN :
       performance_profile(includeWaterfall, includeRecommendations)

SpecProfile == Init /\ [][NextProfile]_vars

\* The security scan of a console buffer.
NextScan ==
  \/ \E m \in ScanMessages : E_push(m)
  \/ security_scan

SpecScan == Init /\ [][NextScan]_vars

\* The security scan of network traffic.
NextScanNetwork ==
  \/ \E r \in ScanRequests : N_request(r)
  \/ \E r \in ScanResponses : N_response(r)
  \/ security_scan

SpecScanNetwork == Init /\ [][NextScanNetwork]_vars

\* ================================================================== claims
Open(t) == connections[t] # NoClient

DistinctIds(s) == \A i, j \in DOMAIN s : i # j => s[i].requestId # s[j].requestId

StoreIs(entry, history, cap) == entry.items = SliceLast(history, cap)

\* C1: after browser_disconnect of a session has completed and until the
\* session is opened again, every query or analysis tool called with its id
\* returns an error result, and with it no record at all.
C1_QueriesAfterCloseFail ==
  (callResult.op \in QueryOps /\ callResult.afterClose)
    => /\ callResult.isError
       /\ callResult.messages = <<>>
       /\ callResult.requests = <<>>
       /\ callResult.responses = <<>>

\* A query was refused after the close although records had been captured and
\* a console array exists again for the id.
C1_Witness ==
  /\ callResult.op \in QueryOps
  /\ callResult.afterClose
  /\ callResult.isError
  /\ closedSince[callResult.tab]
  /\ ingested[callResult.tab].console # <<>>
  /\ consoleMessages[callResult.tab].present

\* C2 as claimed: for every open session and every record kind, the buffer is
\* exactly the most recent min(K, cap) records ingested since the open, in
\* insertion order.
C2_Original ==
  \A t \in Tabs :
    Open(t) => /\ StoreIs(consoleMessages[t], ingested[t].console, ConsoleCap)
               /\ StoreIs(networkRequests[t], ingested[t].requests, RequestCap)
               /\ StoreIs(networkResponses[t], ingested[t].responses, ResponseCap)

\* C2 as amended: the console buffer is exactly the most recent min(K, cap)
\* messages; the request and response indexes never exceed their caps, and
\* hold exactly the most recent min(K, cap) records in insertion order when the
\* request ids ingested since the open are pairwise distinct.
C2_BoundedFifo ==
  \A t \in Tabs :
    Open(t) =>
      /\ StoreIs(consoleMessages[t], ingested[t].console, ConsoleCap)
      /\ Len(networkRequests[t].items) <= RequestCap
      /\ Len(networkResponses[t].items) <= ResponseCap
      /\ DistinctIds(ingested[t].requests)
           => StoreIs(networkRequests[t], ingested[t].requests, RequestCap)
      /\ DistinctIds(ingested[t].responses)
           => StoreIs(networkResponses[t], ingested[t].responses, ResponseCap)

\* An open session took more requests with distinct ids than the cap, so the
\* oldest one was evicted.
C2_Witness ==
  \E t \in Tabs :
    /\ Open(t)
    /\ Len(ingested[t].requests) > RequestCap
    /\ DistinctIds(ingested[t].requests)
    /\ Len(networkRequests[t].items) = RequestCap

\* C3 as claimed: connectToTab on a tab that is already connected leaves the
\* console, request and response buffers of the tab as they were.
C3_Original ==
  [][\A t \in Tabs :
       (Open(t) /\ connectToTab_store(t))
         => /\ consoleMessages'[t].items = consoleMessages[t].items
            /\ networkRequests'[t].items = networkRequests[t].items
            /\ networkResponses'[t].items = networkResponses[t].items]_vars

\* C4 as claimed: a response whose requestId matches no request stored for
\* the session leaves the session's response index as it was.
C4_Original ==
  [][\A c \in ClientIds, rid \in RequestIds :
       (/\ Network_responseReceived(c, rid)
        /\ ~MapHas(networkRequests[clients[c].tab].items, rid))
         => networkResponses' = networkResponses]_vars

\* C5 as claimed: once the close of a session has completed, no console,
\* request or response buffer exists for its id until it is opened again.
C5_Original ==
  \A t \in Tabs :
    closedSince[t] => /\ ~consoleMessages[t].present
                      /\ ~networkRequests[t].present
                      /\ ~networkResponses[t].present

\* C6 as claimed: what a getter returned stays as it was when it returned.
C6_Original == snapshot.kind # "none" => snapshot.items = snapshot.atReturn

\* C7 as claimed: browser_disconnect of an id that is not open returns an
\* error result.
C7_Original ==
  (callResult.op = "browser_disconnect" /\ ~callResult.wasConnected)
    => callResult.isError

PatternAsked(text, o) ==
  IF o.regex THEN RegExpTest(o.pattern, ~o.caseSensitive, text)
  ELSE IF o.caseSensitive THEN includes(text, o.pattern)
  ELSE includes(toLowerCase(text), toLowerCase(o.pattern))

Satisfies(m, o) ==
  /\ o.hasLevel => m.level \in o.level
  /\ o.hasStart => m.timestamp >= o.startTime
  /\ o.hasEnd => m.timestamp <= o.endTime
  /\ o.hasPattern => PatternAsked(m.text, o)

LastMatches(messages, o) ==
  LET matching == SelectSeq(messages, LAMBDA m : Satisfies(m, o))
  IN  IF ~o.hasLimit THEN matching
      ELSE IF o.limit = 0 THEN <<>>
      ELSE SliceLast(matching, o.limit)

\* C9 as claimed: searchConsoleMessages returns exactly the last min(N, m) of
\* the m messages that satisfy every supplied predicate, in their order.
C9_Original == sResult.called => sResult.out = LastMatches(sResult.messages, sResult.options)

C11_NetworkResultSound ==
  nResult.called = "search" =>
    LET o == nResult.options IN
    \A i \in DOMAIN nResult.out :
      LET e == nResult.out[i] IN
      /\ \E k \in DOMAIN nRequests : nRequests[k] = e.request
      /\ (o.hasStatusCode \/ o.hasStatusRange \/ o.hasMinDuration \/ o.hasMaxDuration)
           => /\ e.hasResponse
              /\ \E k \in DOMAIN nResponses : nResponses[k] = e.response
      /\ o.hasMinDuration
           => /\ e.response.hasResponseTime
              /\ e.response.responseTime >= o.minDuration
              /\ o.hasMaxDuration => e.response.responseTime <= o.maxDuration

\* A search with minDuration 0 and a status range returned one of two requests;
\* the other one has no response.
C11_Witness ==
  /\ nResult.called = "search"
  /\ nResult.options.hasMinDuration
  /\ nResult.options.minDuration = 0
  /\ nResult.options.hasStatusRange
  /\ Len(nResult.out) = 1
  /\ Len(nRequests) = 2
  /\ \E k \in DOMAIN nRequests : ~responseMapGet(nResponses, nRequests[k].requestId).found

\* The requests whose response, the one with their requestId, has a measured
\* time.
Measured ==
  {k \in DOMAIN nRequests :
     \E i \in DOMAIN nResponses : /\ nResponses[i].requestId = nRequests[k].requestId
                                  /\ nResponses[i].hasResponseTime}

DurationOf(k) ==
  LET i == CHOOSE i \in DOMAIN nResponses : nResponses[i].requestId = nRequests[k].requestId
  IN  nResponses[i].responseTime

RECURSIVE SumOver(_)
SumOver(ks) ==
  IF ks = {} THEN 0
  ELSE LET k == CHOOSE k \in ks : TRUE IN DurationOf(k) + SumOver(ks \ {k})

ExcludeHit(o, text) ==
  o.hasExclude /\ \E k \in DOMAIN o.exclude :
                    Compiles(o.exclude[k]) /\ RegExpTest(o.exclude[k], TRUE, text)

IncludeMatched(o, text) ==
  {k \in DOMAIN o.include : Compiles(o.include[k]) /\ RegExpTest(o.include[k], TRUE, text)}

ModeOf(o) == IF o.hasMode THEN o.mode ELSE "any"

\* C13 as claimed: of the records passed one after another to one matcher,
\* every record whose text matches an exclude pattern yields no-match.
C13_Original ==
  mRun.called =>
    \A i \in DOMAIN mRecords :
      ExcludeHit(mRun.options, mRecords[i].text) => ~mRun.outcomes[i].matched

\* C14 as claimed: matchConsoleMessage answers no-match only for a record that
\* hits an exclude pattern, or matches no include pattern in 'any' mode, or
\* does not match every include pattern in 'all' mode.
C14_Original ==
  (mRun.called /\ mRun.kind = "console") =>
    \A i \in DOMAIN mRecords :
      LET o == mRun.options
          text == mRecords[i].text
      IN  ~mRun.outcomes[i].matched =>
            \/ ExcludeHit(o, text)
            \/ o.hasInclude /\ ModeOf(o) = "any" /\ IncludeMatched(o, text) = {}
            \/ o.hasInclude /\ ModeOf(o) = "all"
                            /\ IncludeMatched(o, text) # DOMAIN o.include

\* C15 as claimed: of two results of console_advanced_search, the earlier one
\* has a score greater than or equal to the later one's.
C15_Original ==
  (mRun.called /\ mRun.kind = "console") =>
    \A i, j \in DOMAIN mRun.results :
      i < j => mRun.results[i].score >= mRun.results[j].score

\* The options without the patterns that do not compile.
WithoutInvalid(o) ==
  [o EXCEPT !.include = SelectSeq(o.include, Compiles),
            !.exclude = SelectSeq(o.exclude, Compiles),
            !.named = SelectSeq(o.named, Compiles)]

Matched(outcomes) == [i \in DOMAIN outcomes |-> outcomes[i].matched]

\* C16 as claimed: a matcher with a pattern that does not compile answers
\* match or no-match for every record as the matcher without that pattern does.
C16_Original ==
  (mRun.called /\ mRun.kind = "console") =>
    LET less == WithoutInvalid(mRun.options)
    IN  Matched(mRun.outcomes)
          = Matched(mapMatcher("console", less, compilePatterns(less), mRecords))

Cascades == SelectSeq(eRun.correlations, LAMBDA c : c.type = "cascade")

Repeated == SelectSeq(eRun.correlations, LAMBDA c : c.type = "repeated-error")

Members(c) == {c.consoleMessages[k] : k \in DOMAIN c.consoleMessages}

\* C17 as claimed: the member sets of any two cascades of one correlateErrors
\* run are disjoint.
C17_Original ==
  eRun.called =>
    \A i, j \in DOMAIN Cascades :
      i # j => Members(Cascades[i]) \cap Members(Cascades[j]) = {}

\* C18: every cascade has at least 3 members, all of level error and taken from
\* the messages, in non-decreasing timestamp order, none later than 5000 ms
\* after the first; every member after the first is related to the first, so
\* fewer than 3 related errors give no cascade; the root cause is the first
\* member, which no member precedes in time.
C18_CascadeShape ==
  eRun.called =>
    \A i \in DOMAIN Cascades :
      LET c == Cascades[i]
          cascade == c.consoleMessages
      IN  /\ Len(cascade) >= 3
          /\ \A k \in DOMAIN cascade :
               /\ cascade[k].level = "error"
               /\ \E n \in DOMAIN eMessages : eMessages[n] = cascade[k]
               /\ cascade[k].timestamp <= cascade[1].timestamp + TIME_WINDOW
               /\ cascade[1].timestamp <= cascade[k].timestamp
               /\ k > 1 => isPotentiallyCaused(cascade[1], cascade[k])
          /\ \A k, l \in DOMAIN cascade :
               k < l => /\ cascade[k].timestamp <= cascade[l].timestamp
                        /\ cascade[k] # cascade[l]
          /\ c.rootCause.has
          /\ c.rootCause.message = cascade[1].text

\* A cascade was found in a buffer that is not in timestamp order and holds a
\* message of another level and an error later than the window, both related
\* to the first member and both left out.
C18_Witness ==
  /\ eRun.called
  /\ Len(Cascades) = 1
  /\ \E k, l \in DOMAIN eMessages : k < l /\ eMessages[k].timestamp > eMessages[l].timestamp
  /\ \E k \in DOMAIN eMessages :
       /\ eMessages[k].level = "log"
       /\ isPotentiallyCaused(Cascades[1].consoleMessages[1], eMessages[k])
  /\ \E k \in DOMAIN eMessages :
       /\ eMessages[k].level = "error"
       /\ eMessages[k].timestamp > Cascades[1].consoleMessages[1].timestamp + TIME_WINDOW
       /\ isPotentiallyCaused(Cascades[1].consoleMessages[1], eMessages[k])
       /\ eMessages[k] \notin Members(Cascades[1])

KeywordSet(text) ==
  LET keywords == extractKeywords(text) IN {keywords[i] : i \in DOMAIN keywords}

\* Two texts are similar: equal normalized texts, or shared keywords over the
\* size of the smaller keyword set at least 0.8.
Similar(text1, text2) ==
  LET k1 == KeywordSet(text1)
      k2 == KeywordSet(text2)
      smaller == IF Cardinality(k1) <= Cardinality(k2) THEN Cardinality(k1)
                 ELSE Cardinality(k2)
  IN  \/ normalize(text1) = normalize(text2)
      \/ smaller > 0 /\ 5 * Cardinality(k1 \cap k2) >= 4 * smaller

\* C19 as claimed: any two errors of one repeated-error group are similar.
C19_Original ==
  eRun.called =>
    \A i \in DOMAIN Repeated :
      \A a, b \in Members(Repeated[i]) : Similar(a.text, b.text)

\* C20 as claimed: n >= 3 errors that are all similar to each other give exactly
\* one repeated-error finding with n members, and a repeated-error finding
\* whose n members lie within a span of fewer than n seconds has severity high.
C20_Original ==
  eRun.called =>
    LET errors == errorMessagesOf(eMessages)
    IN  /\ (/\ Len(errors) >= 3
            /\ \A k, l \in DOMAIN errors : Similar(errors[k].text, errors[l].text))
             => /\ Len(Repeated) = 1
                /\ Len(Repeated[1].consoleMessages) = Len(errors)
        /\ \A i \in DOMAIN Repeated :
             LET times == {m.timestamp : m \in Members(Repeated[i])}
             IN  MaxOf(times) - MinOf(times) < 1000 * Len(Repeated[i].consoleMessages)
                   => Repeated[i].severity = "high"

NetworkCorrelations == SelectSeq(eRun.correlations, LAMBDA c : c.type = "console-network")

\* The response of a request: the one with its requestId.
ResponsesOf(request) ==
  {eRun.traffic.responses[k] : k \in {k \in DOMAIN eRun.traffic.responses :
                                        eRun.traffic.responses[k].requestId = request.requestId}}

\* An error-level message within 5000 ms of the response, before or after it,
\* whose text holds the request's url, the status code or a network-failure
\* phrase.
RelatedError(m, request, response) ==
  /\ m.level = "error"
  /\ m.timestamp - response.timestamp <= 5000
  /\ response.timestamp - m.timestamp <= 5000
  /\ \/ textHas(m.text, request.url)
     \/ textHas(m.text, ToString(response.status))
     \/ isNetworkErrorMessage(m.text)

\* C21: a request whose response has status >= 400 gets one console-network
\* correlation if and only if some console error is related to it, of severity
\* high for status >= 500 and medium otherwise; a request whose response has a
\* status below 400, or that has no response, gets none.
C21_NetworkErrorCorrelation ==
  eRun.called =>
    \A n \in DOMAIN eRun.traffic.requests :
      LET request == eRun.traffic.requests[n]
          mine == SelectSeq(NetworkCorrelations,
                            LAMBDA c : c.networkRequests[1].request = request)
          failed == {r \in ResponsesOf(request) : r.status >= 400}
      IN  /\ failed = {} => mine = <<>>
          /\ \A response \in failed :
               IF \E k \in DOMAIN eMessages : RelatedError(eMessages[k], request, response)
               THEN /\ Len(mine) = 1
                    /\ mine[1].severity = IF response.status >= 500 THEN "high" ELSE "medium"
                    /\ \A m \in Members(mine[1]) : RelatedError(m, request, response)
               ELSE mine = <<>>

\* A request answered 404 got a medium correlation holding an error that names
\* its url exactly 5000 ms before the response, while the buffer also holds a
\* log message with a network-failure phrase and an error with the url in
\* upper case.
C21_Witness ==
  /\ eRun.called
  /\ \E i \in DOMAIN NetworkCorrelations :
       /\ NetworkCorrelations[i].severity = "medium"
       /\ NetworkCorrelations[i].networkRequests[1].response.timestamp = 6000
       /\ \E m \in Members(NetworkCorrelations[i]) : m.timestamp = 1000
  /\ \E k \in DOMAIN eMessages : eMessages[k].level = "log"
  /\ \E k \in DOMAIN eMessages : eMessages[k].text = <<"V">>
  /\ \A i \in DOMAIN NetworkCorrelations :
       \A m \in Members(NetworkCorrelations[i]) : m.text # <<"V">>

\* An error-level message within W ms of the response whose text holds the
\* request's url, the status code or a network-failure phrase.
RelatedWithin(m, request, response, W) ==
  /\ m.level = "error"
  /\ m.timestamp - response.timestamp <= W
  /\ response.timestamp - m.timestamp <= W
  /\ \/ textHas(m.text, request.url)
     \/ textHas(m.text, ToString(response.status))
     \/ isNetworkErrorMessage(m.text)

\* C22: error_correlate called with timeWindow W correlates a failed request
\* with the console errors within W ms of its response, and within 5000 ms only
\* when timeWindow is not supplied.
C22_Original ==
  eRun.called =>
    LET W == IF eRun.args.hasTimeWindow THEN eRun.args.timeWindow ELSE 5000
    IN  \A n \in DOMAIN eRun.traffic.requests :
          \A response \in {r \in ResponsesOf(eRun.traffic.requests[n]) : r.status >= 400} :
            (\E i \in DOMAIN NetworkCorrelations :
               NetworkCorrelations[i].networkRequests[1].request = eRun.traffic.requests[n])
            <=> (\E k \in DOMAIN eMessages :
                   RelatedWithin(eMessages[k], eRun.traffic.requests[n], response, W))

\* A call of connectToTab on tab t ends with an error in this step.
FailedOpen(t) ==
  /\ callResult'.op = "browser_connect"
  /\ callResult'.isError
  /\ callResult'.tab = t
  /\ \/ callResult' # callResult
     \/ \E c \in ClientIds : clients[c].enabling /\ ~clients'[c].enabling

\* No earlier call created a client for tab t: before the call that is ending
\* the tab had no session and no buffers.
NeverOpened(t) ==
  \A c \in ClientIds : clients[c].tab = t => clients[c].enabling

\* C27: when connectToTab ends with an error on a tab that had no session, the
\* tab is not connected afterwards and has no console, request or response
\* buffer.
C27_Original ==
  [][\A t \in Tabs :
       FailedOpen(t) /\ NeverOpened(t) =>
         /\ ~isConnected(t)'
         /\ ~consoleMessages'[t].present
         /\ ~networkRequests'[t].present
         /\ ~networkResponses'[t].present]_vars

\* C28: in an open session every stored response has the requestId of a
\* request that is stored in the request index.
C28_Original ==
  \A t \in Tabs :
    Open(t) =>
      \A i \in DOMAIN networkResponses[t].items :
        MapHas(networkRequests[t].items, networkResponses[t].items[i].requestId)

\* The findings of one kind in the issues of the scan.
IssuesOf(idKind) == SelectSeq(eRun.issues, LAMBDA x : x.id[1] = idKind)

\* How many messages of the scanned buffer have the text and the timestamp of m.
Copies(m) ==
  Cardinality({j \in DOMAIN eRun.messages : /\ eRun.messages[j].text = m.text
                                            /\ eRun.messages[j].timestamp = m.timestamp
                                            /\ eRun.messages[j].level = m.level})

\* C23: for a hostname other than localhost and 127.0.0.1 there is exactly one
\* missing-headers finding if some response from it, answered with a status
\* below 400, lacks a header of the checklist, whatever the order of the
\* requests; for localhost and 127.0.0.1 there is none.
C23_Original ==
  eRun.called =>
    \A d \in {hostname(eRun.requests[i].url) : i \in DOMAIN eRun.requests} :
      LET pairs == pairUp(eRun.requests, eRun.responses)
          lacking == \E i \in DOMAIN pairs :
                       /\ hostname(pairs[i].request.url) = d
                       /\ pairs[i].hasResponse
                       /\ pairs[i].response.status < 400
                       /\ missingHeaders(pairs[i].response) # <<>>
          found == SelectSeq(IssuesOf("missing-headers"), LAMBDA x : x.domain = d)
      IN  IF d \in {"localhost", "127.0.0.1"} THEN found = <<>>
          ELSE lacking => Len(found) = 1

\* C24: for every console message and every kind of the detector table there
\* is exactly one sensitive-data finding for the message and the kind when the
\* text matches the kind's detector and none when it does not; the finding is
\* critical for the kinds password and private_key.
C24_SensitiveDataFindings ==
  eRun.called =>
    \A i \in DOMAIN eRun.messages, k \in DOMAIN sensitivePatterns :
      LET m == eRun.messages[i]
          found == SelectSeq(IssuesOf("console-sensitive"),
                             LAMBDA x : /\ x.id[3] = sensitivePatterns[k].type
                                        /\ x.message = m.text
                                        /\ x.timestamp = m.timestamp)
      IN  /\ Len(found) = IF \E w \in DOMAIN m.text : m.text[w] \in sensitivePatterns[k].words
                          THEN Copies(m) ELSE 0
          /\ \A n \in DOMAIN found :
               /\ found[n].type = "sensitive-data"
               /\ sensitivePatterns[k].type \in {"password", "private_key"}
                    => found[n].severity = "critical"

\* A scan of a buffer with the message password=abc123 and a message that
\* names a token twice: one critical finding of kind password for the first, one
\* finding of kind token for the second.
C24_Witness ==
  /\ eRun.called
  /\ "issues" \in DOMAIN eRun
  /\ Len(eRun.messages) = 2
  /\ Len(IssuesOf("console-sensitive")) = 2
  /\ \E n \in DOMAIN eRun.issues :
       /\ eRun.issues[n].id = <<"console-sensitive", 1000, "password">>
       /\ eRun.issues[n].severity = "critical"
  /\ \E n \in DOMAIN eRun.issues :
       /\ eRun.issues[n].id = <<"console-sensitive", 3000, "token">>
       /\ eRun.issues[n].severity = "high"

\* C25: in one scan every error-level message whose text holds a filesystem-path
\* signature yields an exposed-error finding of its own, whatever was scanned
\* before it.
C25_Original ==
  eRun.called =>
    \A i \in DOMAIN eRun.messages :
      LET m == eRun.messages[i]
          found == SelectSeq(IssuesOf("exposed-path"),
                             LAMBDA x : x.message = m.text /\ x.timestamp = m.timestamp)
      IN  (/\ m.level = "error"
           /\ \E k \in DOMAIN sensitivePathPatterns :
                \E w \in DOMAIN m.text : m.text[w] \in sensitivePathPatterns[k])
            => Len(found) = Copies(m)

\* The findings of the analysis that ran last: the correlations of
\* correlateErrors or the issues of scanForVulnerabilities.
Findings == IF "issues" \in DOMAIN eRun THEN eRun.issues ELSE eRun.correlations

\* C29: no two findings of one analysis result have the same id.
C29_Original ==
  eRun.called =>
    \A i, j \in DOMAIN Findings : i # j => Findings[i].id # Findings[j].id

\* The messages of the buffer that have the field values of m.
SameFields(m) ==
  {k \in DOMAIN eMessages :
     \A f \in DOMAIN eRun.options.fields :
       getFieldValue(eMessages[k], eRun.options.fields[f])
         = getFieldValue(m, eRun.options.fields[f])}

\* C30: with fields given, the group reported under a key holds every message
\* with the key's field values that lies within timeWindow of the earliest
\* message with these values; and a message that has a later message with its
\* field values within timeWindow is in the group reported under its key.
C30_Original ==
  (eRun.called /\ eRun.correlated /\ eRun.options.hasFields) =>
    /\ \A g \in DOMAIN eRun.groups :
         LET group == eRun.groups[g].group
             same == SameFields(group[1])
             earliest == MinOf({eMessages[k].timestamp : k \in same})
         IN  \A k \in same :
               eMessages[k].timestamp - earliest <= eRun.options.timeWindow
                 => \E n \in DOMAIN group : group[n] = eMessages[k]
    /\ \A i \in DOMAIN eMessages :
         (\E k \in SameFields(eMessages[i]) \ {i} :
            /\ eMessages[k].timestamp >= eMessages[i].timestamp
            /\ eMessages[k].timestamp - eMessages[i].timestamp <= eRun.options.timeWindow)
           => \E g \in DOMAIN eRun.groups :
                \E n \in DOMAIN eRun.groups[g].group :
                  eRun.groups[g].group[n] = eMessages[i]

\* C26: with no console message, no request and no response the analyzers
\* report nothing: correlateErrors and scanForVulnerabilities return an empty
\* list, analyzePerformance returns no bottleneck and no recommendation.
C26_Original ==
  (nResult.called = "profile" /\ nResult.requests = <<>> /\ nResult.responses = <<>>) =>
    /\ nResult.metrics.bottlenecks = <<>>
    /\ nResult.metrics.recommendations = <<>>
    /\ correlateErrors(<<>>, nResult.requests, nResult.responses) = <<>>
    /\ scanForVulnerabilities(<<>>, nResult.requests, nResult.responses) = <<>>

====
